---- MODULE Spec2Model ----
(***************************************************************************)
(* Ocean Notes (notes_frontend): the notes API client with its             *)
(* localStorage fallback (src/api/client.js) and the App component's edit  *)
(* session (src/App.js): optimistic create / update / delete, debounced    *)
(* autosave and selection maintenance.                                     *)
(*                                                                         *)
(* Text is a sequence of one-character strings.  An optional value (a JS   *)
(* null / undefined, or a promise result that may be absent) is a sequence *)
(* of length 0 or 1.  Ids are integers: NoId is null / undefined, EmptyId  *)
(* is the empty string "", every other id is a generated or server id.     *)
(***************************************************************************)
EXTENDS Integers, Sequences, FiniteSets, TLC

(* ------------------------------ bounds --------------------------------- *)

\* Date.now() runs from StartTime to MaxTime.  In the session every handler
\* of a user gesture or of the debounce timeout runs at a later time than the
\* handler before it, so MaxTime - StartTime bounds how many of them run.
MaxTime == 4
\* makeId() / makeUuid() produce the ids 1 .. MaxIds, the backend assigns
\* as many.
MaxIds == 7
\* Longest in-memory collection.
MaxNotes == 3
\* Client calls awaiting their result at the same time.
MaxInflight == 2
\* Pending banner auto-clear timeouts.
MaxBannerTimers == 1
\* Client calls issued in one behaviour of the client-only specification.
MaxClientCalls == 2

(* ------------------------------ values --------------------------------- *)

NoId == -1
EmptyId == 0
\* In place of an id: the element is no object (null, a number, a string).
NotAnObject == -3
\* The number n as an id, where the string n is the id n.
NumId(n) == -10 - n
\* String(id)
StringOf(id) == IF id <= -10 THEN -10 - id ELSE id
\* A timestamp field that is absent or not a number.
NoTime == -1
\* A title / content field that is absent or not a string.
NoText == <<"?">>

None == <<>>
Some(x) == <<x>>
IsSome(o) == Len(o) > 0
Get(o) == o[1]

Whitespace == {" ", "\n"}

UntitledNote == <<"U", "n", "t", "i", "t", "l", "e", "d", " ", "n", "o", "t", "e">>

(* ------------------------------- text ---------------------------------- *)

RECURSIVE TrimStart(_)
TrimStart(s) ==
  IF s = <<>> THEN <<>>
  ELSE IF Head(s) \in Whitespace THEN TrimStart(Tail(s)) ELSE s

RECURSIVE TrimEnd(_)
TrimEnd(s) ==
  IF s = <<>> THEN <<>>
  ELSE IF s[Len(s)] \in Whitespace THEN TrimEnd(SubSeq(s, 1, Len(s) - 1)) ELSE s

\* String.prototype.trim
Trim(s) == TrimEnd(TrimStart(s))

\* backend.replace(/\/+$/, "")
RECURSIVE StripTrailingSlashes(_)
StripTrailingSlashes(s) ==
  IF s = <<>> THEN <<>>
  ELSE IF s[Len(s)] = "/" THEN StripTrailingSlashes(SubSeq(s, 1, Len(s) - 1)) ELSE s

\* normalizeTitle: (title ?? "").trim(), "Untitled note" when that is empty.
NormalizeTitle(title) ==
  LET t == Trim(IF title = NoText THEN <<>> ELSE title)
  IN  IF Len(t) > 0 THEN t ELSE UntitledNote

(* ------------------------------- notes --------------------------------- *)

Note(id, title, content, createdAt, updatedAt) ==
  [id |-> id, title |-> title, content |-> content,
   createdAt |-> createdAt, updatedAt |-> updatedAt]

\* normalizeNote with an updatedAt that is always Date.now().
NormalizeNoteStamps(input, t) ==
  IF ~IsSome(input) THEN None
  ELSE LET r == Get(input)
       IN  Some(Note(IF r.id # NoId THEN StringOf(r.id) ELSE EmptyId,
                     IF r.title # NoText THEN r.title ELSE UntitledNote,
                     IF r.content # NoText THEN r.content ELSE <<>>,
                     IF r.createdAt # NoTime THEN r.createdAt ELSE t,
                     t))

\* normalizeNote: null for a non-object (None); otherwise id coerced to a
\* string ("" when absent), title / content defaulted, timestamps defaulted
\* to Date.now() when they are not numbers.
NormalizeNote(input, t) ==
  IF ~IsSome(input) THEN None
  ELSE LET r == Get(input)
       IN  Some(Note(IF r.id # NoId THEN StringOf(r.id) ELSE EmptyId,
                     IF r.title # NoText THEN r.title ELSE UntitledNote,
                     IF r.content # NoText THEN r.content ELSE <<>>,
                     IF r.createdAt # NoTime THEN r.createdAt ELSE t,
                     IF r.updatedAt # NoTime THEN r.updatedAt ELSE t))

Ids(ns) == {ns[i].id : i \in 1..Len(ns)}

HasId(ns, id) == \E i \in 1..Len(ns) : ns[i].id = id

\* Array.prototype.findIndex on id; 0 stands for -1.
FindIndex(ns, id) ==
  IF HasId(ns, id) THEN CHOOSE i \in 1..Len(ns) :
                          ns[i].id = id /\ \A j \in 1..(i - 1) : ns[j].id # id
  ELSE 0

\* Array.prototype.find on id.
Find(ns, id) == IF HasId(ns, id) THEN Some(ns[FindIndex(ns, id)]) ELSE None

\* FilterOutId with a test no entry passes: nothing is taken out.
FilterOutNone(ns, id) == ns

RECURSIVE FilterOutId(_, _)
FilterOutId(ns, id) ==
  IF ns = <<>> THEN <<>>
  ELSE IF Head(ns).id = id THEN FilterOutId(Tail(ns), id)
       ELSE <<Head(ns)>> \o FilterOutId(Tail(ns), id)

\* MapReplace without the test on the id: every entry is replaced.
MapReplaceAll(ns, id, repl) == [i \in 1..Len(ns) |-> repl]

\* MapReplace that adds the replacement at the head when no entry has the id.
MapReplaceUpserts(ns, id, repl) ==
  IF \E i \in 1..Len(ns) : ns[i].id = id
  THEN [i \in 1..Len(ns) |-> IF ns[i].id = id THEN repl ELSE ns[i]]
  ELSE <<repl>> \o ns

\* prev.map((n) => (n.id === id ? repl : n))
MapReplace(ns, id, repl) ==
  [i \in 1..Len(ns) |-> IF ns[i].id = id THEN repl ELSE ns[i]]

\* The (b.updatedAt || 0) - (a.updatedAt || 0) comparator, as "a sorts
\* strictly before b".
UpdatedBefore(a, b) == b.updatedAt - a.updatedAt < 0

RECURSIVE InsertSorted(_, _)
InsertSorted(sorted, n) ==
  IF sorted = <<>> THEN <<n>>
  ELSE IF UpdatedBefore(n, Head(sorted)) THEN <<n>> \o sorted
       ELSE <<Head(sorted)>> \o InsertSorted(Tail(sorted), n)

\* [...notes].sort(comparator): Array.prototype.sort is stable.
RECURSIVE SortByUpdatedDesc(_)
SortByUpdatedDesc(ns) ==
  IF ns = <<>> THEN <<>>
  ELSE InsertSorted(SortByUpdatedDesc(SubSeq(ns, 1, Len(ns) - 1)), ns[Len(ns)])

(* --------------------------- local storage ----------------------------- *)

\* The value under a localStorage key: absent, not a JSON array, or an array
\* of note-shaped objects and of elements that are no objects.
Absent == [kind |-> "absent", items |-> <<>>]
Garbage == [kind |-> "garbage", items |-> <<>>]
Stored(items) == [kind |-> "array", items |-> items]

RECURSIVE NormalizeAll(_, _)
NormalizeAll(items, t) ==
  IF items = <<>> THEN <<>>
  ELSE NormalizeNote(Some(Head(items)), t) \o NormalizeAll(Tail(items), t)

\* n && typeof n === "object"
IsObject(n) == n.id # NotAnObject

\* n && typeof n.id === "string"
HasStringId(n) == n.id >= EmptyId

\* readNotes: [] on a missing key, malformed JSON or a non-array; the
\* elements that are objects are normalized and those whose id is then a
\* string are kept.
ReadNotes(st, t) ==
  IF st.kind # "array" THEN <<>>
  ELSE SelectSeq(NormalizeAll(SelectSeq(st.items, IsObject), t), HasStringId)

\* writeNotes
WriteNotes(ns) == Stored(ns)

(* ------------------------ local fallback CRUD -------------------------- *)

\* What a client call yields to its caller.
Result(raised, list, note, ok) ==
  [raised |-> raised, list |-> list, note |-> note, ok |-> ok]

ListResult(ns) == Result(FALSE, ns, None, FALSE)
NoteResult(o) == Result(FALSE, <<>>, o, FALSE)
BoolResult(b) == Result(FALSE, <<>>, None, b)
Raised == Result(TRUE, <<>>, None, FALSE)

\* Each local operation: its result and the storage value it leaves.
Local(res, st) == [res |-> res, st |-> st]

localListNotes(st, t) ==
  Local(ListResult(SortByUpdatedDesc(ReadNotes(st, t))), st)

localGetNote(st, id, t) ==
  Local(NoteResult(Find(ReadNotes(st, t), id)), st)

localCreateNote(st, note, t, uuid) ==
  LET normalized == Get(NormalizeNote(
                      Some([note EXCEPT
                              !.id = uuid,
                              !.createdAt = IF @ # NoTime THEN @ ELSE t,
                              !.updatedAt = IF @ # NoTime THEN @ ELSE t]), t))
      existing == ReadNotes(st, t)
  IN  Local(NoteResult(Some(normalized)), WriteNotes(<<normalized>> \o existing))

\* { ...current, ...partial }: the partial's present fields win.
Merge(current, partial) ==
  [id |-> current.id,
   title |-> IF partial.title # NoText THEN partial.title ELSE current.title,
   content |-> IF partial.content # NoText THEN partial.content ELSE current.content,
   createdAt |-> current.createdAt,
   updatedAt |-> IF partial.updatedAt # NoTime THEN partial.updatedAt
                 ELSE current.updatedAt]

\* localUpdateNote that stores the partial as a new note when the id is absent.
localUpdateNoteUpserts(st, id, partial, t) ==
  LET ns == ReadNotes(st, t)
      idx == FindIndex(ns, id)
      updated == Get(NormalizeNote(
                   Some([(IF idx = 0 THEN partial ELSE Merge(ns[idx], partial)) EXCEPT
                           !.id = id, !.updatedAt = t]), t))
  IN  Local(NoteResult(Some(updated)),
            WriteNotes(IF idx = 0 THEN <<updated>> \o ns
                       ELSE [ns EXCEPT ![idx] = updated]))

localUpdateNote(st, id, partial, t) ==
  LET ns == ReadNotes(st, t)
      idx == FindIndex(ns, id)
  IN  IF idx = 0 THEN Local(NoteResult(None), st)
      ELSE LET updated == Get(NormalizeNote(
                            Some([Merge(ns[idx], partial) EXCEPT
                                    !.id = id, !.updatedAt = t]), t))
           IN  Local(NoteResult(Some(updated)),
                     WriteNotes([ns EXCEPT ![idx] = updated]))

localDeleteNote(st, id, t) ==
  LET ns == ReadNotes(st, t)
  IN  IF ~HasId(ns, id) THEN Local(BoolResult(FALSE), st)
      ELSE Local(BoolResult(TRUE), WriteNotes(FilterOutId(ns, id)))

(* ------------------------------ network -------------------------------- *)

ApiBaseDefault == <<"/", "a", "p", "i">>

\* computeBaseUrl without its trim(): a blank value counts as a backend.
computeBaseUrlUntrimmed(env) ==
  LET backend == IF IsSome(env) THEN Get(env) ELSE <<>>
  IN  IF backend = <<>> THEN None
      ELSE Some(StripTrailingSlashes(backend) \o ApiBaseDefault)

\* computeBaseUrl: null (None) when REACT_APP_BACKEND_URL is unset or blank.
\* env: the variable's value, None when it is not set.
computeBaseUrl(env) ==
  LET backend == Trim(IF IsSome(env) THEN Get(env) ELSE <<>>)
  IN  IF backend = <<>> THEN None
      ELSE Some(StripTrailingSlashes(backend) \o ApiBaseDefault)

isBackendEnabled(env) == IsSome(computeBaseUrl(env))

\* What one request to the backend comes to: the timeout aborting it, a
\* transport failure, a non-2xx status, a 2xx body that is not JSON, or a 2xx
\* body that parses (an empty body parses to null).  shape / items / obj
\* describe the parsed body.
Outcome(kind, shape, items, obj) ==
  [kind |-> kind, shape |-> shape, items |-> items, obj |-> obj]

Fails(kind) == Outcome(kind, "empty", <<>>, None)
OkEmpty == Outcome("OK", "empty", <<>>, None)
OkObject(raw) == Outcome("OK", "object", <<>>, Some(raw))
OkArray(items) == Outcome("OK", "array", items, None)
OkWrapped(items) == Outcome("OK", "wrapped", items, None)

FailureKinds == {"TIMEOUT", "FETCH_FAILED", "HTTP", "BAD_JSON"}

\* A backend function either throws a normalized error or returns.
Threw(code) == [threw |-> TRUE, code |-> code, res |-> Raised]
Returned(res) == [threw |-> FALSE, code |-> "", res |-> res]

\* safeFetch followed by throwIfNotOk: the error thrown before the body of a
\* 2xx response is read, "" when the response is 2xx.
FetchError(o) ==
  IF o.kind \in {"TIMEOUT", "FETCH_FAILED", "HTTP"} THEN o.kind ELSE ""

backendListNotes(o, t) ==
  IF FetchError(o) # "" THEN Threw(FetchError(o))
  ELSE IF o.kind = "BAD_JSON" THEN Threw("BAD_JSON")
  ELSE IF o.shape \in {"array", "wrapped"}
       THEN Returned(ListResult(NormalizeAll(o.items, t)))
       ELSE Returned(ListResult(<<>>))

\* note && note.id ? note : null
WithId(o) == IF IsSome(o) /\ Get(o).id # EmptyId THEN o ELSE None

backendGetNote(o, t) ==
  IF FetchError(o) # "" THEN Threw(FetchError(o))
  ELSE IF o.kind = "BAD_JSON" THEN Threw("BAD_JSON")
  ELSE Returned(NoteResult(WithId(NormalizeNote(o.obj, t))))

backendCreateNote(o, note, t, uuid) ==
  IF FetchError(o) # "" THEN Threw(FetchError(o))
  ELSE IF o.kind = "BAD_JSON" THEN Threw("BAD_JSON")
  ELSE LET created == WithId(NormalizeNote(o.obj, t))
       IN  IF IsSome(created) THEN Returned(NoteResult(created))
           ELSE Returned(NoteResult(NormalizeNote(Some([note EXCEPT !.id = uuid]), t)))

backendUpdateNote(o, t) ==
  IF FetchError(o) # "" THEN Threw(FetchError(o))
  ELSE IF o.kind = "BAD_JSON" THEN Threw("BAD_JSON")
  ELSE Returned(NoteResult(WithId(NormalizeNote(o.obj, t))))

\* The body of a 2xx response is not read.
backendDeleteNote(o) ==
  IF FetchError(o) # "" THEN Threw(FetchError(o))
  ELSE Returned(BoolResult(TRUE))

(* ----------------------------- public API ------------------------------ *)

Ops == {"list", "get", "create", "update", "delete"}

\* The operation against localStorage.
RunLocal(op, id, arg, st, t, uuid) ==
  CASE op = "list" -> localListNotes(st, t)
    [] op = "get" -> localGetNote(st, id, t)
    [] op = "create" -> localCreateNote(st, arg, t, uuid)
    [] op = "update" -> localUpdateNote(st, id, arg, t)
    [] op = "delete" -> localDeleteNote(st, id, t)

\* The operation against the backend, given what the request came to.
RunBackend(op, arg, o, t, uuid) ==
  CASE op = "list" -> backendListNotes(o, t)
    [] op = "get" -> backendGetNote(o, t)
    [] op = "create" -> backendCreateNote(o, arg, t, uuid)
    [] op = "update" -> backendUpdateNote(o, t)
    [] op = "delete" -> backendDeleteNote(o)

NoCont == [kind |-> "none", id |-> NoId, target |-> NoId, snap |-> None,
           pre |-> None, n0 |-> 0]

\* A call of listNotes / getNote / createNote / updateNote / deleteNote.
\* phase: "remote" while the request is in flight, "resolved" once the
\* returned promise has settled.  attempts / locals count the requests sent
\* and the localStorage operations run; failed: the remote attempt threw;
\* k: what the caller does with the result.
Call(op, id, arg, phase, attempts, locals, failed, res, k) ==
  [op |-> op, id |-> id, arg |-> arg, phase |-> phase, attempts |-> attempts,
   locals |-> locals, failed |-> failed, res |-> res, k |-> k]

\* From the call to its first await: without a base URL the local operation
\* runs at once, otherwise the request is sent.
ClientStart(op, id, arg, env, st, t, uuid, k) ==
  IF ~IsSome(computeBaseUrl(env))
  THEN LET l == RunLocal(op, id, arg, st, t, uuid)
       IN  [call |-> Call(op, id, arg, "resolved", 0, 1, FALSE, l.res, k),
            st |-> l.st]
  ELSE [call |-> Call(op, id, arg, "remote", 1, 0, FALSE, Raised, k), st |-> st]

\* { ...n, id: String(n.id) }: ids are strings already.
StringIds(res) == res

\* ClientFinish with a catch block that rethrows instead of falling back.
ClientFinishRethrows(c, o, st, t, uuid) ==
  LET b == RunBackend(c.op, c.arg, o, t, uuid)
  IN  [call |-> [c EXCEPT !.phase = "resolved", !.failed = b.threw,
                          !.res = StringIds(b.res)],
       st |-> st]

\* ClientFinish with a catch block that sends the request once more before
\* it falls back.
ClientFinishRetries(c, o, st, t, uuid) ==
  LET b == RunBackend(c.op, c.arg, o, t, uuid)
  IN  IF ~b.threw
      THEN [call |-> [c EXCEPT !.phase = "resolved", !.res = StringIds(b.res)],
            st |-> st]
      ELSE LET l == RunLocal(c.op, c.id, c.arg, st, t, uuid)
           IN  [call |-> [c EXCEPT !.phase = "resolved", !.failed = TRUE,
                                   !.attempts = @ + 1, !.locals = @ + 1,
                                   !.res = l.res],
                st |-> l.st]

\* From the response to the return: the try block's result, or the catch
\* block's local operation.
ClientFinish(c, o, st, t, uuid) ==
  LET b == RunBackend(c.op, c.arg, o, t, uuid)
  IN  IF ~b.threw
      THEN [call |-> [c EXCEPT !.phase = "resolved", !.res = StringIds(b.res)],
            st |-> st]
      ELSE LET l == RunLocal(c.op, c.id, c.arg, st, t, uuid)
           IN  [call |-> [c EXCEPT !.phase = "resolved", !.failed = TRUE,
                                   !.locals = @ + 1, !.res = l.res],
                st |-> l.st]

(* ------------------------------- state --------------------------------- *)

VARIABLES
  backendUrl,    \* process.env.REACT_APP_BACKEND_URL, None when unset
  stored,        \* localStorage["notesApp:notes"] (client.js NOTES_KEY)
  legacy,        \* localStorage["ocean_notes_v1"] (App.js STORAGE_KEY)
  now,           \* Date.now()
  nextId,        \* the next id makeId / makeUuid / the server hands out
  calls,         \* the client calls whose caller has not resumed yet
  issued,        \* history: calls made by the client's callers of SpecClient
  fellBack,      \* history: any: some client call fell back to localStorage;
                 \* again: a call made after that sent a request
  notes,         \* useState notes
  selectedId,    \* useState selectedId
  draftTitle,    \* useState draftTitle
  draftContent,  \* useState draftContent
  isDirty,       \* useState isDirty
  savePhase,     \* useState savePhase
  isConfirmOpen, \* useState isConfirmOpen
  banner,        \* useState banner, its message
  bannerTimers,  \* pending withTransientBanner timeouts
  timer,         \* autosaveTimerRef: None, or the scheduled callback's closure
  timeouts,      \* the debounce callbacks setTimeout holds: not run, not cleared
  dirty,         \* a render is committed whose effects have not run yet
  depSelNoteId,  \* selectedNote?.id as the draft-sync effect last saw it
  burst,         \* history: the edits since the debounce timer was last idle
  query,         \* useState query
  sortOrder,     \* useState sortOrder
  onlyWithContent, \* useState onlyWithContent
  isOnline,      \* useState isOnline
  setItemThrows  \* localStorage.setItem throws: quota exceeded, storage disabled

clientVars == <<backendUrl, stored, now, nextId, calls, issued, fellBack>>
sessionVars == <<legacy, notes, selectedId, draftTitle, draftContent, isDirty,
                 savePhase, isConfirmOpen, banner, bannerTimers, timer, timeouts,
                 dirty, depSelNoteId, burst>>
shellVars == <<query, sortOrder, onlyWithContent, isOnline, setItemThrows>>
vars == <<backendUrl, stored, now, nextId, calls, issued, fellBack,
          legacy, notes, selectedId, draftTitle, draftContent, isDirty,
          savePhase, isConfirmOpen, banner, bannerTimers, timer, timeouts,
          dirty, depSelNoteId, burst,
          query, sortOrder, onlyWithContent, isOnline, setItemThrows>>

StartTime == 2

\* window.localStorage.setItem(key, value) inside try / catch: what the key
\* holds afterwards.
SetItem(old, new) == IF setItemThrows THEN old ELSE new

\* The search box is empty, the stored preferences are absent, the browser is
\* online.
InitShell ==
  /\ query = <<>>
  /\ sortOrder = "updated_desc"
  /\ onlyWithContent = FALSE
  /\ isOnline = TRUE

\* Values of REACT_APP_BACKEND_URL: unset, empty, blank, a host, a host with
\* a trailing slash.
BackendUrls ==
  {None, Some(<<>>), Some(<<" ">>), Some(<<"h">>), Some(<<"h", "/">>)}

NoBurst == [edits |-> 0, persists |-> 0, id |-> NoId, title |-> <<>>,
            content |-> <<>>, sentId |-> NoId, sentTitle |-> <<>>,
            sentContent |-> <<>>]

\* The macrotask queue may run: no committed render waits for its effects and
\* no settled promise waits for its continuation.
Idle == ~dirty /\ \A i \in 1..Len(calls) : calls[i].phase # "resolved"

\* A handler of the session runs: later than the one before it.
Later == now < MaxTime /\ now' = now + 1

\* Time passes between two calls of the client.
Tick ==
  /\ now < MaxTime
  /\ now' = now + 1
  /\ UNCHANGED <<shellVars, backendUrl, stored, nextId, calls, issued, fellBack>>
  /\ UNCHANGED sessionVars

(* ------------------------ the backend's answers ------------------------ *)

\* The n-th id the backend assigns: none that makeId / makeUuid produce.
ServerId(n) == 100 + n

SrvA == Note(ServerId(1), <<"s">>, <<>>, 1, 1)
\* An object without id, title, content or timestamps.
SrvBare == Note(NoId, NoText, NoText, NoTime, NoTime)

ListPayloads == {<<>>, <<SrvA>>, <<SrvBare, SrvA>>}

\* What the request of call c may come to.
Outcomes(c, t, fresh) ==
  {Fails(k) : k \in FailureKinds} \cup
  CASE c.op = "list" ->
         {OkArray(l) : l \in ListPayloads} \cup {OkWrapped(<<SrvA>>), OkEmpty}
    [] c.op = "get" ->
         {OkEmpty, OkObject([SrvA EXCEPT !.id = c.id]), OkObject(SrvBare)}
    [] c.op = "create" ->
         {OkEmpty, OkObject(c.arg), OkObject([c.arg EXCEPT !.id = fresh]),
          OkObject([c.arg EXCEPT !.id = NoId])}
    [] c.op = "update" ->
         {OkEmpty,
          OkObject(Note(c.id, c.arg.title, c.arg.content, NoTime, c.arg.updatedAt)),
          OkObject(Note(c.id, c.arg.title, c.arg.content, 1, t))}
    [] c.op = "delete" -> {OkEmpty}

\* A newer version, kept by the backend, of a note the session has stored.
SrvP1 == Note(11, <<"s">>, <<>>, 0, 1)

SessionListPayloads == {<<>>, <<SrvBare, SrvA>>, <<SrvP1>>}

\* What the request of call c of the edit session may come to.
SessionOutcomes(c, t, fresh) ==
  {Fails("FETCH_FAILED")} \cup
  CASE c.op = "list" -> {OkArray(l) : l \in SessionListPayloads}
    [] c.op = "create" ->
         {OkObject(c.arg), OkObject([c.arg EXCEPT !.id = fresh]),
          OkObject([c.arg EXCEPT !.id = NoId])}
    [] c.op = "update" ->
         {OkEmpty, OkObject(Note(c.id, c.arg.title, c.arg.content, 1, t))}
    [] OTHER -> {OkEmpty}

\* The response (or the timeout) of call i arrives and the client function
\* returns: the remote result, or the local fallback's.
RemoteResponds(i, o) ==
  /\ Idle
  /\ calls[i].phase = "remote"
  /\ calls[i].op = "create" => nextId <= MaxIds
  /\ LET fin == ClientFinish(calls[i], o, stored, now, nextId)
     IN  /\ calls' = [calls EXCEPT ![i] = fin.call]
         /\ stored' = SetItem(stored, fin.st)
         /\ fellBack' = [fellBack EXCEPT !.any = @ \/ fin.call.failed]
  /\ nextId' = IF calls[i].op = "create" THEN nextId + 1 ELSE nextId
  /\ UNCHANGED <<shellVars, backendUrl, now, issued>>
  /\ UNCHANGED sessionVars

RemoveAt(seq, i) == SubSeq(seq, 1, i - 1) \o SubSeq(seq, i + 1, Len(seq))

(* ------------------- the client on its own (SpecClient) ---------------- *)

ArgTitles == {<<>>, <<"a">>}

CreateArgs == {Note(NoId, ti, <<>>, NoTime, NoTime) : ti \in ArgTitles} \cup
              {Note(5, <<"a">>, <<"c">>, 1, 1)}

UpdateArgs == {Note(NoId, ti, <<"c">>, NoTime, NoTime) : ti \in ArgTitles}

NoArg == Note(NoId, NoText, NoText, NoTime, NoTime)

ArgIds == {1, 2}

N1 == Note(1, <<"a">>, <<>>, 1, 1)
N2 == Note(2, <<>>, <<"c">>, 1, 2)

ClientStores == {Absent, Garbage, Stored(<<N1>>), Stored(<<N1, N2>>)}

InitSessionIdle ==
  /\ legacy = Absent
  /\ notes = <<>>
  /\ selectedId = NoId
  /\ draftTitle = <<>>
  /\ draftContent = <<>>
  /\ isDirty = FALSE
  /\ savePhase = "saved"
  /\ isConfirmOpen = FALSE
  /\ banner = ""
  /\ bannerTimers = [keep |-> 0, plain |-> 0]
  /\ timer = None
  /\ timeouts = {}
  /\ dirty = FALSE
  /\ depSelNoteId = NoId
  /\ burst = NoBurst
  /\ InitShell
  /\ setItemThrows = FALSE

InitClient ==
  /\ backendUrl \in BackendUrls
  /\ stored \in ClientStores
  /\ now = MaxTime - 1
  /\ nextId = 3
  /\ calls = <<>>
  /\ issued = 0
  /\ fellBack = [any |-> FALSE, again |-> FALSE]
  /\ InitSessionIdle

\* ClientCall for a client that remembers a failed request and goes straight
\* to localStorage from then on.
ClientCallSticky(op, id, arg) ==
  /\ Idle
  /\ issued < MaxClientCalls
  /\ Len(calls) < MaxInflight
  /\ op = "create" => nextId <= MaxIds
  /\ LET start == ClientStart(op, id, arg, IF fellBack.any THEN None ELSE backendUrl,
                              stored, now, nextId, NoCont)
     IN  /\ calls' = Append(calls, start.call)
         /\ stored' = SetItem(stored, start.st)
         /\ nextId' = IF op = "create" /\ start.call.phase = "resolved"
                      THEN nextId + 1 ELSE nextId
         /\ fellBack' = [fellBack EXCEPT
                           !.again = @ \/ (fellBack.any /\ start.call.attempts > 0)]
  /\ issued' = issued + 1
  /\ UNCHANGED <<shellVars, backendUrl, now>>
  /\ UNCHANGED sessionVars

\* Some caller calls one of the five client functions.
ClientCall(op, id, arg) ==
  /\ Idle
  /\ issued < MaxClientCalls
  /\ Len(calls) < MaxInflight
  /\ op = "create" => nextId <= MaxIds
  /\ LET start == ClientStart(op, id, arg, backendUrl, stored, now, nextId, NoCont)
     IN  /\ calls' = Append(calls, start.call)
         /\ stored' = SetItem(stored, start.st)
         /\ nextId' = IF op = "create" /\ start.call.phase = "resolved"
                      THEN nextId + 1 ELSE nextId
         /\ fellBack' = [fellBack EXCEPT
                           !.again = @ \/ (fellBack.any /\ start.call.attempts > 0)]
  /\ issued' = issued + 1
  /\ UNCHANGED <<shellVars, backendUrl, now>>
  /\ UNCHANGED sessionVars

\* The caller resumes with the result.
ClientReturn(i) ==
  /\ calls[i].phase = "resolved"
  /\ calls[i].k.kind = "none"
  /\ calls' = RemoveAt(calls, i)
  /\ UNCHANGED <<shellVars, backendUrl, stored, now, nextId, issued, fellBack>>
  /\ UNCHANGED sessionVars

ClientCalls ==
  \/ ClientCall("list", NoId, NoArg)
  \/ \E id \in ArgIds : ClientCall("get", id, NoArg)
  \/ \E arg \in CreateArgs : ClientCall("create", NoId, arg)
  \/ \E id \in ArgIds, arg \in UpdateArgs : ClientCall("update", id, arg)
  \/ \E id \in ArgIds : ClientCall("delete", id, NoArg)

Responses ==
  \E i \in 1..Len(calls) :
    \E o \in Outcomes(calls[i], now, ServerId(nextId)) : RemoteResponds(i, o)

SessionResponses ==
  \E i \in 1..Len(calls) :
    \E o \in SessionOutcomes(calls[i], now, ServerId(nextId)) : RemoteResponds(i, o)

ClientReturns == \E i \in 1..Len(calls) : ClientReturn(i)

NextClient == ClientCalls \/ Responses \/ ClientReturns \/ Tick

SpecClient == InitClient /\ [][NextClient]_vars

(* ---------------------- properties of the client ----------------------- *)

\* The request of call i has failed and the call has settled in this step.
FellBackNow(i) ==
  /\ Len(calls') = Len(calls)
  /\ calls[i].phase = "remote"
  /\ calls'[i].phase = "resolved"
  /\ calls'[i].failed

\* C2 (fallback totality): when the request of a call of listNotes, getNote,
\* createNote, updateNote or deleteNote fails, the call does not raise: it
\* settles with the result of the same operation run against localStorage,
\* which is left as that operation leaves it.
FallbackTotality ==
  [][\A i \in 1..Len(calls) :
       FellBackNow(i) =>
         LET l == RunLocal(calls[i].op, calls[i].id, calls[i].arg, stored, now, nextId)
         IN  /\ ~calls'[i].res.raised
             /\ calls'[i].res = l.res
             /\ stored' = l.st]_vars

\* A call of updateNote whose request failed has settled with the note the
\* local update returned.
FallbackTotalityWitness ==
  \E i \in 1..Len(calls) :
    /\ calls[i].phase = "resolved" /\ calls[i].failed
    /\ calls[i].op = "update"
    /\ IsSome(calls[i].res.note)
    /\ HasId(ReadNotes(stored, now), calls[i].id)

\* REACT_APP_BACKEND_URL is absent or holds nothing but whitespace.
Blank(env) ==
  ~IsSome(env) \/ \A j \in 1..Len(Get(env)) : Get(env)[j] \in Whitespace

\* C3: with no backend configured (the URL absent or blank) no call sends a
\* request: each runs its one localStorage operation and has settled.
NoRemoteWithoutBackend ==
  Blank(backendUrl) =>
    \A i \in 1..Len(calls) :
      /\ calls[i].attempts = 0
      /\ calls[i].locals = 1
      /\ calls[i].phase = "resolved"

\* The URL is set but blank and a call has run locally.
NoRemoteWithoutBackendWitness ==
  /\ IsSome(backendUrl) /\ Blank(backendUrl) /\ Get(backendUrl) # <<>>
  /\ \E i \in 1..Len(calls) : calls[i].attempts = 0 /\ calls[i].locals = 1

\* C4: one call sends at most one request and runs at most one localStorage
\* operation; the local operation runs only without a backend or after the
\* one request has failed.
OneAttemptOneLocal ==
  \A i \in 1..Len(calls) :
    /\ calls[i].attempts <= 1
    /\ calls[i].locals <= 1
    /\ calls[i].locals = 1 =>
          \/ Blank(backendUrl) /\ calls[i].attempts = 0
          \/ calls[i].attempts = 1 /\ calls[i].failed
    /\ calls[i].phase = "resolved" /\ calls[i].locals = 0 =>
          calls[i].attempts = 1 /\ ~calls[i].failed

\* A call has sent its request, seen it fail and run the local operation.
OneAttemptOneLocalWitness ==
  \E i \in 1..Len(calls) :
    calls[i].attempts = 1 /\ calls[i].locals = 1 /\ calls[i].failed

\* C5 (fallback is operation-local): with a backend configured every call
\* sends a request, whatever became of the calls before it.
FallbackIsOperationLocal ==
  ~Blank(backendUrl) => \A i \in 1..Len(calls) : calls[i].attempts = 1

\* A call made after an earlier call had fallen back has sent its request.
FallbackIsOperationLocalWitness ==
  /\ fellBack.again
  /\ \E i \in 1..Len(calls) : calls[i].phase = "remote" /\ calls[i].attempts = 1

\* C18: a createNote call whose request was answered 2xx with a payload
\* without a usable id does not return a note with an id the client made up:
\* a call that settles with a note carrying the generated id has fallen back,
\* has run localCreateNote and returns a note localStorage holds.
NoInventedId ==
  [][\A i \in 1..Len(calls) :
       (/\ Len(calls') = Len(calls)
        /\ calls[i].op = "create"
        /\ calls[i].phase = "remote"
        /\ calls'[i].phase = "resolved"
        /\ IsSome(calls'[i].res.note)
        /\ Get(calls'[i].res.note).id = nextId) =>
         /\ calls'[i].failed
         /\ calls'[i].locals = 1
         /\ HasId(ReadNotes(stored', now'), nextId)]_vars

(* ------- normalizeNote and readNotes called directly (SpecHelpers) ------ *)

\* Elements of a stored array: every combination of a missing, empty,
\* string or numeric id with present and missing fields.
RawNotes ==
  {Note(id, ti, co, ca, ua) :
     id \in {NoId, EmptyId, 1, NumId(2)}, ti \in {NoText, <<"a">>},
     co \in {NoText, <<"c">>}, ca \in {NoTime, 0}, ua \in {NoTime, 1}}

\* null as an element of a stored array.
RawNull == Note(NotAnObject, NoText, NoText, NoTime, NoTime)

RawStores ==
  {Absent, Garbage} \cup {Stored(<<x>>) : x \in RawNotes}
  \cup {Stored(<<RawNull, N1>>)}

InitHelpers ==
  /\ backendUrl = None
  /\ stored \in RawStores
  /\ now = StartTime
  /\ nextId = 1
  /\ calls = <<>>
  /\ issued = 0
  /\ fellBack = [any |-> FALSE, again |-> FALSE]
  /\ InitSessionIdle

\* A call of an exported helper at time t, settled at once with this result.
HelperCall(op, arg, t, res) ==
  /\ issued < MaxClientCalls
  /\ Len(calls) < MaxInflight
  /\ calls' = Append(calls, Call(op, NoId, arg, "resolved", 0, 0, FALSE, res, NoCont))
  /\ issued' = issued + 1
  /\ now' = t
  /\ UNCHANGED <<shellVars, backendUrl, stored, nextId, fellBack>>
  /\ UNCHANGED sessionVars

\* readNotes() now or later.
ReadNotesCall ==
  \E t \in now..MaxTime :
    HelperCall("readNotes", NoArg, t, ListResult(ReadNotes(stored, t)))

\* normalizeNote(x) for an element x of the stored array, now or later.
NormalizeCall ==
  /\ stored.kind = "array"
  /\ \E j \in 1..Len(stored.items), t \in now..MaxTime :
       LET x == stored.items[j]
       IN  HelperCall("normalizeNote", x, t,
                      NoteResult(NormalizeNote(IF IsObject(x) THEN Some(x) ELSE None, t)))

\* normalizeNote(y) for the note y an earlier call of normalizeNote has
\* returned, now or later.
NormalizeAgain ==
  \E i \in 1..Len(calls), t \in now..MaxTime :
    /\ calls[i].op = "normalizeNote"
    /\ IsSome(calls[i].res.note)
    /\ LET y == Get(calls[i].res.note)
       IN  HelperCall("normalizeNote", y, t, NoteResult(NormalizeNote(Some(y), t)))

NextHelpers == ReadNotesCall \/ NormalizeCall \/ NormalizeAgain \/ ClientReturns

SpecHelpers == InitHelpers /\ [][NextHelpers]_vars

\* C19 (normalize is idempotent): normalizeNote applied to a note that
\* normalizeNote has returned returns that note, field by field, whatever
\* the time of the second call.
NormalizeIdempotent ==
  \A i, j \in 1..Len(calls) :
    (/\ calls[i].op = "normalizeNote" /\ calls[j].op = "normalizeNote"
     /\ IsSome(calls[i].res.note)
     /\ calls[j].arg = Get(calls[i].res.note)) =>
      /\ IsSome(calls[j].res.note)
      /\ \A f \in {"id", "title", "content", "createdAt", "updatedAt"} :
           Get(calls[j].res.note)[f] = Get(calls[i].res.note)[f]

\* An element with a numeric id and no other field was normalized, and its
\* result was normalized again at a later time.
NormalizeIdempotentWitness ==
  /\ Len(calls) = 2
  /\ calls[1].op = "normalizeNote" /\ calls[2].op = "normalizeNote"
  /\ calls[1].arg = Note(NumId(2), NoText, NoText, NoTime, NoTime)
  /\ IsSome(calls[1].res.note)
  /\ calls[2].arg = Get(calls[1].res.note)
  /\ now > Get(calls[1].res.note).updatedAt

\* C20: readNotes drops the stored elements without a resolvable id: no note
\* it returns has an empty id.
ReadNotesDropsNoId ==
  \A i \in 1..Len(calls) :
    calls[i].op = "readNotes" =>
      \A j \in 1..Len(calls[i].res.list) :
        calls[i].res.list[j].id \notin {NoId, EmptyId}

(* ------------------------- App.js: helpers ----------------------------- *)

\* !x for an id: null, undefined and "" are falsy.
Falsy(id) == id = NoId \/ id = EmptyId

\* The selectedNote memo: notes.find((n) => n.id === selectedId) || null.
SelectedNote(ns, sel) == Find(ns, sel)

\* seedNotes: two notes with fresh ids id1 and id1 + 1, created two hours and
\* one hour before t (an hour is one unit of the model's clock).
seedNotes(t, id1) ==
  <<Note(id1, <<"W">>, <<"w">>, t - 2, t - 2),
    Note(id1 + 1, <<"K">>, <<"k">>, t - 1, t - 1)>>

\* loadNotesWithSeed's "basic validation" of the parsed array.
RECURSIVE Cleaned(_, _)
Cleaned(items, t) ==
  IF items = <<>> THEN <<>>
  ELSE LET n == Head(items)
       IN  (IF n.id = NoId THEN <<>>
            ELSE <<Note(n.id,
                        IF n.title # NoText THEN n.title ELSE <<>>,
                        IF n.content # NoText THEN n.content ELSE <<>>,
                        IF n.createdAt # NoTime THEN n.createdAt ELSE t,
                        IF n.updatedAt # NoTime THEN n.updatedAt ELSE t)>>)
           \o Cleaned(Tail(items), t)

\* loadNotesWithSeed reads STORAGE_KEY and seeds when it holds no usable note.
Seeds(st, t) == st.kind # "array" \/ Cleaned(st.items, t) = <<>>

loadNotesWithSeed(st, t, id1) ==
  IF Seeds(st, t) THEN seedNotes(t, id1) ELSE Cleaned(st.items, t)

\* A title line longer than this is cut (generateTitleFromContent).
TitleMax == 60

\* The first line of s and what follows its line break.
RECURSIVE FirstLine(_)
FirstLine(s) ==
  IF s = <<>> \/ Head(s) = "\n" THEN <<>> ELSE <<Head(s)>> \o FirstLine(Tail(s))

RECURSIVE AfterFirstLine(_)
AfterFirstLine(s) ==
  IF s = <<>> THEN <<>>
  ELSE IF Head(s) = "\n" THEN Tail(s) ELSE AfterFirstLine(Tail(s))

\* lines.map((l) => l.trim()).find((l) => l.length > 0) || ""
RECURSIVE FirstNonEmptyLine(_)
FirstNonEmptyLine(s) ==
  IF s = <<>> THEN <<>>
  ELSE IF Trim(FirstLine(s)) # <<>> THEN Trim(FirstLine(s))
       ELSE FirstNonEmptyLine(AfterFirstLine(s))

Ellipsis == "..."

\* generateTitleFromContent that cuts a long line without trimming the cut.
generateTitleUntrimmedCut(content) ==
  LET firstNonEmpty == FirstNonEmptyLine(content)
  IN  IF firstNonEmpty = <<>> THEN UntitledNote
      ELSE IF Len(firstNonEmpty) > TitleMax
           THEN Append(SubSeq(firstNonEmpty, 1, TitleMax), Ellipsis)
           ELSE firstNonEmpty

generateTitleFromContent(content) ==
  LET firstNonEmpty == FirstNonEmptyLine(content)
  IN  IF firstNonEmpty = <<>> THEN UntitledNote
      ELSE IF Len(firstNonEmpty) > TitleMax
           THEN Append(Trim(SubSeq(firstNonEmpty, 1, TitleMax)), Ellipsis)
           ELSE firstNonEmpty

\* Banner messages; the danger ones stay until another banner replaces them.
DangerBanners == {"Could not load notes", "Could not create note.",
                  "Could not delete note.", "Autosave failed. Changes were reverted.",
                  "Could not save changes (offline?)"}

\* The closure of the callback scheduleAutosave hands to setTimeout: the
\* render's selectedId and selectedNote and the values passed in.  fired: the
\* callback has run (autosaveTimerRef keeps the handle).
TimerClosure(id, title, content, snap) ==
  [id |-> id, title |-> title, content |-> content, snap |-> snap, fired |-> FALSE]

TimerPending == IsSome(timer) /\ ~Get(timer).fired

\* clearTimeout that clears nothing.
ClearTimeoutNoop(ts, ref) == ts

\* window.clearTimeout(autosaveTimerRef.current) on the callbacks setTimeout
\* holds; a handle is identified with the closure it was set with.
ClearTimeout(ts, ref) ==
  IF IsSome(ref) THEN ts \ {[Get(ref) EXCEPT !.fired = FALSE]} ELSE ts

\* scheduleAutosave up to setTimeout: nothing without a selected id, otherwise
\* the previous timeout is cleared and a new one set.  What
\* autosaveTimerRef.current becomes.
scheduleAutosave(title, content) ==
  IF Falsy(selectedId) THEN timer
  ELSE Some(TimerClosure(selectedId, title, content, SelectedNote(notes, selectedId)))

\* scheduleAutosave: the callbacks setTimeout holds afterwards.
ScheduledTimeouts(title, content) ==
  IF Falsy(selectedId) THEN timeouts
  ELSE ClearTimeout(timeouts, timer) \cup
       {TimerClosure(selectedId, title, content, SelectedNote(notes, selectedId))}

\* PatchNote that patches the first entry whatever its id.
PatchNoteFirst(ns, id, title, content, t) ==
  IF ns = <<>> THEN ns
  ELSE [ns EXCEPT ![1] = [@ EXCEPT !.title = title, !.content = content,
                                   !.updatedAt = t]]

\* The optimistic patch of the timer callback and of flushPendingAutosave.
PatchNote(ns, id, title, content, t) ==
  LET idx == FindIndex(ns, id)
  IN  IF idx = 0 THEN ns
      ELSE LET updated == [ns[idx] EXCEPT !.title = title, !.content = content,
                                          !.updatedAt = t]
           IN  IF updated.title = ns[idx].title /\ updated.content = ns[idx].content
               THEN ns
               ELSE [ns EXCEPT ![idx] = updated]

\* The partial handed to updateNote.
Partial(title, content, t) == Note(NoId, title, content, NoTime, t)

\* What an async handler keeps across its await: the id it works on, the id
\* to select afterwards (onSelectNote), its snapshot.  History: pre, the
\* entry as it was when the handler started; n0, the collection's length then.
Cont(kind, id, target, snap, pre, n0) ==
  [kind |-> kind, id |-> id, target |-> target, snap |-> snap, pre |-> pre,
   n0 |-> n0]

\* Calls whose continuation will schedule a transient banner timeout.
RECURSIVE TransientToCome(_)
TransientToCome(cs) ==
  IF cs = <<>> THEN 0
  ELSE (IF Head(cs).k.kind \in {"create", "delete"} THEN 1 ELSE 0)
       + TransientToCome(Tail(cs))

\* The history of the current burst of edits, after an edit with these values.
BurstAfterEdit(title, content) ==
  [edits |-> IF TimerPending /\ burst.id = selectedId THEN burst.edits + 1 ELSE 1,
   persists |-> 0, id |-> selectedId, title |-> title, content |-> content,
   sentId |-> NoId, sentTitle |-> <<>>, sentContent |-> <<>>]

(* --------------------- App.js: the edit session ------------------------ *)

\* depSelNoteId before the first effects have run.
NotMounted == -2

SessionUrls == {None, Some(<<"h">>)}

P1 == Note(11, <<"p">>, <<>>, 0, 1)
P2 == Note(12, <<>>, <<"q">>, 0, 0)

\* What localStorage holds when the app starts: nothing (first run), or the
\* collection of an earlier session of which the client stored one note (a
\* fallback) or none (the backend answered every call).
\* Each pair: STORAGE_KEY's value, NOTES_KEY's value.
InitStores == {<<Absent, Absent>>, <<Stored(<<P1, P2>>), Stored(<<P1>>)>>,
               <<Stored(<<P1, P2>>), Absent>>}

\* The useState initializers: notes and selectedId each call
\* loadNotesWithSeed, so on a first run each call seeds with ids of its own.
InitSession ==
  /\ backendUrl \in SessionUrls
  /\ \E p \in InitStores : legacy = p[1] /\ stored = p[2]
  /\ now = StartTime
  /\ notes = loadNotesWithSeed(legacy, now, 1)
  /\ selectedId = loadNotesWithSeed(legacy, now, 3)[1].id
  /\ nextId = IF Seeds(legacy, now) THEN 5 ELSE 1
  /\ calls = <<>>
  /\ issued = 0
  /\ fellBack = [any |-> FALSE, again |-> FALSE]
  /\ draftTitle = (IF IsSome(SelectedNote(notes, selectedId))
                   THEN Get(SelectedNote(notes, selectedId)).title ELSE <<>>)
  /\ draftContent = (IF IsSome(SelectedNote(notes, selectedId))
                     THEN Get(SelectedNote(notes, selectedId)).content ELSE <<>>)
  /\ isDirty = FALSE
  /\ savePhase = "saved"
  /\ isConfirmOpen = FALSE
  /\ banner = ""
  /\ bannerTimers = [keep |-> 0, plain |-> 0]
  /\ timer = None
  /\ timeouts = {}
  /\ dirty = TRUE
  /\ depSelNoteId = NotMounted
  /\ burst = NoBurst
  /\ InitShell
  /\ setItemThrows = FALSE

\* MaintainSelection without the test that the selected id is still there.
MaintainSelectionNoRepair(ns, sel) ==
  IF Len(ns) = 0 THEN NoId
  ELSE IF Falsy(sel) THEN ns[1].id
  ELSE sel

\* The selection-maintenance effect's setSelectedId.
MaintainSelection(ns, sel) ==
  IF Len(ns) = 0 THEN NoId
  ELSE IF Falsy(sel) \/ ~HasId(ns, sel) THEN ns[1].id
  ELSE sel

\* The passive effects of the committed render, in the order App declares
\* them: draft sync (when selectedNote?.id changed), the load effect (on
\* mount: the banner and the listNotes call), the STORAGE_KEY write, and
\* selection maintenance.
Effects ==
  /\ dirty
  /\ LET sn == SelectedNote(notes, selectedId)
         snId == IF IsSome(sn) THEN Get(sn).id ELSE NoId
         sync == snId # depSelNoteId
         mount == depSelNoteId = NotMounted
         start == ClientStart("list", NoId, NoArg, backendUrl, stored, now, nextId,
                              Cont("load", NoId, NoId, None, None, Len(notes)))
         sel == MaintainSelection(notes, selectedId)
     IN  /\ draftTitle' = IF ~sync THEN draftTitle
                          ELSE IF IsSome(sn) THEN Get(sn).title ELSE <<>>
         /\ draftContent' = IF ~sync THEN draftContent
                            ELSE IF IsSome(sn) THEN Get(sn).content ELSE <<>>
         /\ isDirty' = IF sync THEN FALSE ELSE isDirty
         /\ savePhase' = IF sync THEN "saved" ELSE savePhase
         /\ depSelNoteId' = snId
         /\ calls' = IF mount THEN Append(calls, start.call) ELSE calls
         /\ banner' = IF ~mount THEN banner
                      ELSE IF isBackendEnabled(backendUrl) THEN "Syncing with backend"
                      ELSE "Local mode (offline-ready)"
         /\ legacy' = SetItem(legacy, Stored(notes))
         /\ selectedId' = sel
         /\ dirty' = (sel # selectedId)
  /\ UNCHANGED <<shellVars, backendUrl, stored, now, nextId, issued, fellBack, notes,
                 isConfirmOpen, bannerTimers, timer, timeouts, burst>>

\* createNewNote up to its await: the optimistic note and the createNote call.
CreateNewNote ==
  /\ Idle /\ ~isConfirmOpen
  /\ Later
  /\ Len(notes) < MaxNotes
  /\ Len(calls) < MaxInflight
  /\ nextId + 1 <= MaxIds
  /\ bannerTimers.plain + TransientToCome(calls) < MaxBannerTimers
  /\ LET tempId == nextId
         optimistic == Note(tempId, <<>>, <<>>, now, now)
         start == ClientStart("create", NoId, optimistic, backendUrl, stored, now,
                              nextId + 1, Cont("create", tempId, NoId, None, None,
                                   Len(notes)))
     IN  /\ notes' = <<optimistic>> \o notes
         /\ selectedId' = tempId
         /\ calls' = Append(calls, start.call)
         /\ stored' = SetItem(stored, start.st)
         /\ nextId' = IF start.call.phase = "resolved" THEN nextId + 2 ELSE nextId + 1
  /\ dirty' = TRUE
  /\ UNCHANGED <<shellVars, backendUrl, issued, fellBack, legacy, draftTitle, draftContent,
                 isDirty, savePhase, isConfirmOpen, banner, bannerTimers, timer, timeouts,
                 depSelNoteId, burst>>

\* requestDeleteSelected
RequestDelete ==
  /\ Idle /\ ~isConfirmOpen
  /\ IsSome(SelectedNote(notes, selectedId))
  /\ isConfirmOpen' = TRUE
  /\ UNCHANGED <<shellVars, backendUrl, stored, now, nextId, calls, issued, fellBack, legacy,
                 notes, selectedId, draftTitle, draftContent, isDirty, savePhase,
                 banner, bannerTimers, timer, timeouts, dirty, depSelNoteId, burst>>

\* cancelDelete
CancelDelete ==
  /\ Idle /\ isConfirmOpen
  /\ isConfirmOpen' = FALSE
  /\ UNCHANGED <<shellVars, backendUrl, stored, now, nextId, calls, issued, fellBack, legacy,
                 notes, selectedId, draftTitle, draftContent, isDirty, savePhase,
                 banner, bannerTimers, timer, timeouts, dirty, depSelNoteId, burst>>

\* confirmDeleteSelected up to its await: the optimistic removal and the
\* deleteNote call; only the dialog closes when no note is selected.
ConfirmDelete ==
  /\ Idle /\ isConfirmOpen
  /\ isConfirmOpen' = FALSE
  /\ LET sn == SelectedNote(notes, selectedId)
     IN  IF ~IsSome(sn)
         THEN UNCHANGED <<stored, now, calls, notes, dirty>>
         ELSE /\ Later
              /\ Len(calls) < MaxInflight
              /\ bannerTimers.plain + TransientToCome(calls) < MaxBannerTimers
              /\ LET idToDelete == Get(sn).id
                     start == ClientStart("delete", idToDelete, NoArg, backendUrl,
                                          stored, now, nextId,
                                          Cont("delete", idToDelete, NoId, sn, sn,
                                               Len(notes)))
                 IN  /\ notes' = FilterOutId(notes, idToDelete)
                     /\ calls' = Append(calls, start.call)
                     /\ stored' = SetItem(stored, start.st)
              /\ dirty' = TRUE
  /\ UNCHANGED <<shellVars, backendUrl, nextId, issued, fellBack, legacy, selectedId, draftTitle,
                 draftContent, isDirty, savePhase, banner, bannerTimers, timer, timeouts,
                 depSelNoteId, burst>>

TitleInputs == {<<>>, <<"a", " ">>}
ContentInputs == {<<>>, <<"c">>}

\* The editor is rendered for the selected note and no dialog covers it.
CanEdit == Idle /\ ~isConfirmOpen /\ IsSome(SelectedNote(notes, selectedId))

\* What updateDraftTitle, updateDraftContent and onTitleBlur share: the draft
\* is marked dirty and scheduleAutosave is called with these values.
Edited(title, content) ==
  /\ Later
  /\ isDirty' = TRUE
  /\ savePhase' = "saving"
  /\ timer' = scheduleAutosave(title, content)
  /\ timeouts' = ScheduledTimeouts(title, content)
  /\ burst' = BurstAfterEdit(title, content)
  /\ UNCHANGED <<shellVars, backendUrl, stored, nextId, calls, issued, fellBack, legacy,
                 notes, selectedId, isConfirmOpen, banner, bannerTimers, dirty,
                 depSelNoteId>>

\* updateDraftTitle
EditTitle(value) ==
  /\ CanEdit
  /\ value # draftTitle
  /\ draftTitle' = value
  /\ draftContent' = draftContent
  /\ Edited(value, draftContent)

\* updateDraftContent
EditContent(value) ==
  /\ CanEdit
  /\ value # draftContent
  /\ draftContent' = value
  /\ draftTitle' = draftTitle
  /\ Edited(draftTitle, value)

\* onTitleBlur: a non-blank title is trimmed, a blank one is derived from the
\* content.
TitleBlur ==
  /\ CanEdit
  /\ LET t == Trim(draftTitle)
     IN  IF Len(t) > 0
         THEN /\ t # draftTitle
              /\ draftTitle' = t
              /\ draftContent' = draftContent
              /\ Edited(t, draftContent)
         ELSE /\ draftTitle' = generateTitleFromContent(draftContent)
              /\ draftContent' = draftContent
              /\ Edited(generateTitleFromContent(draftContent), draftContent)

\* The callback of one of the timeouts setTimeout holds, up to its await: the
\* optimistic patch of the entry with the closure's id and the updateNote
\* call.  autosaveTimerRef keeps the handle.
TimerFires ==
  /\ Idle
  /\ Later
  /\ Len(calls) < MaxInflight
  /\ \E tm \in timeouts :
       LET normalizedTitle == NormalizeTitle(tm.title)
           start == ClientStart("update", tm.id, Partial(normalizedTitle, tm.content, now),
                                backendUrl, stored, now, nextId,
                                Cont("update", tm.id, NoId, tm.snap,
                                     Find(notes, tm.id), Len(notes)))
       IN  /\ notes' = PatchNote(notes, tm.id, normalizedTitle, tm.content, now)
           /\ calls' = Append(calls, start.call)
           /\ stored' = SetItem(stored, start.st)
           /\ timeouts' = timeouts \ {tm}
           /\ timer' = IF timer = Some(tm) THEN Some([tm EXCEPT !.fired = TRUE])
                       ELSE timer
           /\ burst' = [burst EXCEPT !.persists = @ + 1, !.sentId = start.call.id,
                                     !.sentTitle = start.call.arg.title,
                                     !.sentContent = start.call.arg.content]
  /\ dirty' = (notes' # notes)
  /\ UNCHANGED <<shellVars, backendUrl, nextId, issued, fellBack, legacy, selectedId, draftTitle,
                 draftContent, isDirty, savePhase, isConfirmOpen, banner,
                 bannerTimers, depSelNoteId>>

\* onSelectNote up to its first await.  With a timer handle in
\* autosaveTimerRef (pending or already fired) the timeout is cleared and
\* flushPendingAutosave patches the entry and calls updateNote; setSelectedId
\* waits for that call.  Without one the selection changes at once.
SelectNote(id) ==
  /\ Idle /\ ~isConfirmOpen
  /\ HasId(notes, id)
  /\ Later
  /\ IF IsSome(timer) /\ ~Falsy(selectedId)
     THEN /\ Len(calls) < MaxInflight
          /\ LET normalizedTitle == NormalizeTitle(draftTitle)
                 start == ClientStart("update", selectedId,
                                      Partial(normalizedTitle, draftContent, now),
                                      backendUrl, stored, now, nextId,
                                      Cont("flush", selectedId, id, None,
                                           Find(notes, selectedId), Len(notes)))
             IN  /\ notes' = PatchNote(notes, selectedId, normalizedTitle, draftContent, now)
                 /\ calls' = Append(calls, start.call)
                 /\ stored' = SetItem(stored, start.st)
          /\ savePhase' = "saving"
          /\ selectedId' = selectedId
     ELSE /\ selectedId' = id
          /\ UNCHANGED <<notes, calls, stored, savePhase>>
  /\ timer' = None
  /\ timeouts' = ClearTimeout(timeouts, timer)
  /\ burst' = NoBurst
  /\ dirty' = (notes' # notes \/ selectedId' # selectedId)
  /\ UNCHANGED <<shellVars, backendUrl, nextId, issued, fellBack, legacy, draftTitle,
                 draftContent, isDirty, isConfirmOpen, banner, bannerTimers,
                 depSelNoteId>>

\* A withTransientBanner timeout: the banner is cleared whatever it shows.
BannerTimeout ==
  /\ Idle
  /\ bannerTimers.plain > 0
  /\ bannerTimers' = [bannerTimers EXCEPT !.plain = @ - 1]
  /\ banner' = ""
  /\ UNCHANGED <<shellVars, backendUrl, stored, now, nextId, calls, issued, fellBack, legacy,
                 notes, selectedId, draftTitle, draftContent, isDirty, savePhase,
                 isConfirmOpen, timer, timeouts, dirty, depSelNoteId, burst>>

\* The load effect's timeout: the banner is cleared unless it is a danger one.
LoadBannerTimeout ==
  /\ Idle
  /\ bannerTimers.keep > 0
  /\ bannerTimers' = [bannerTimers EXCEPT !.keep = @ - 1]
  /\ banner' = IF banner \in DangerBanners THEN banner ELSE ""
  /\ UNCHANGED <<shellVars, backendUrl, stored, now, nextId, calls, issued, fellBack, legacy,
                 notes, selectedId, draftTitle, draftContent, isDirty, savePhase,
                 isConfirmOpen, timer, timeouts, dirty, depSelNoteId, burst>>

(* ------------- App.js: what follows each awaited client call ----------- *)

\* Call i has settled and its caller is next to run.
Resumes(i, kind) ==
  /\ ~dirty
  /\ calls[i].phase = "resolved"
  /\ calls[i].k.kind = kind
  /\ calls' = RemoveAt(calls, i)

\* The load effect after await listNotes().
ContinueLoad(i) ==
  /\ Resumes(i, "load")
  /\ IF calls[i].res.raised
     THEN /\ banner' = "Could not load notes"
          /\ UNCHANGED <<notes, selectedId, nextId>>
     ELSE LET loaded == calls[i].res.list
              seeding == Len(loaded) = 0 /\ Seeds(legacy, now)
              next == IF Len(loaded) > 0 THEN loaded
                      ELSE loadNotesWithSeed(legacy, now, nextId)
          IN  /\ seeding => nextId + 1 <= MaxIds
              /\ notes' = next
              /\ selectedId' = IF ~Falsy(selectedId) /\ HasId(next, selectedId)
                               THEN selectedId
                               ELSE IF Len(next) > 0 THEN next[1].id ELSE NoId
              /\ nextId' = IF seeding THEN nextId + 2 ELSE nextId
              /\ banner' = IF isBackendEnabled(backendUrl) THEN "Ready" ELSE banner
  /\ bannerTimers' = [bannerTimers EXCEPT !.keep = @ + 1]
  /\ dirty' = (notes' # notes \/ selectedId' # selectedId)
  /\ UNCHANGED <<shellVars, backendUrl, stored, now, issued, fellBack, legacy, draftTitle,
                 draftContent, isDirty, savePhase, isConfirmOpen, timer, timeouts,
                 depSelNoteId, burst>>

\* createNewNote after await createNote(optimistic): the entry with the
\* placeholder id becomes the created note and a selection on the placeholder
\* follows it; the catch block takes the optimistic entry out again.
ContinueCreate(i) ==
  /\ Resumes(i, "create")
  /\ LET tempId == calls[i].k.id
         created == calls[i].res.note
     IN  IF calls[i].res.raised
         THEN /\ notes' = FilterOutId(notes, tempId)
              /\ selectedId' = IF selectedId = tempId THEN NoId ELSE selectedId
              /\ banner' = "Could not create note."
              /\ bannerTimers' = bannerTimers
         ELSE /\ notes' = IF IsSome(created) THEN MapReplace(notes, tempId, Get(created))
                          ELSE notes
              /\ selectedId' = IF IsSome(created) /\ ~Falsy(Get(created).id)
                                  /\ Get(created).id # tempId /\ selectedId = tempId
                               THEN Get(created).id ELSE selectedId
              /\ banner' = "Note created"
              /\ bannerTimers' = [bannerTimers EXCEPT !.plain = @ + 1]
  /\ dirty' = (notes' # notes \/ selectedId' # selectedId)
  /\ UNCHANGED <<shellVars, backendUrl, stored, now, nextId, issued, fellBack, legacy,
                 draftTitle, draftContent, isDirty, savePhase, isConfirmOpen, timer,
                 timeouts,
                 depSelNoteId, burst>>

\* ContinueDelete without the test of the result: only an error restores.
ContinueDeleteIgnoresFalse(i) ==
  /\ ~dirty
  /\ calls[i].phase = "resolved"
  /\ calls[i].k.kind = "delete"
  /\ calls' = SubSeq(calls, 1, i - 1) \o SubSeq(calls, i + 1, Len(calls))
  /\ IF calls[i].res.raised
     THEN /\ notes' = calls[i].k.snap \o notes
          /\ banner' = "Could not delete note."
          /\ bannerTimers' = bannerTimers
     ELSE /\ notes' = notes
          /\ banner' = "Note deleted"
          /\ bannerTimers' = [bannerTimers EXCEPT !.plain = @ + 1]
  /\ dirty' = (notes' # notes)
  /\ UNCHANGED <<shellVars, backendUrl, stored, now, nextId, issued, fellBack, legacy,
                 selectedId, draftTitle, draftContent, isDirty, savePhase,
                 isConfirmOpen, timer, timeouts, depSelNoteId, burst>>

\* confirmDeleteSelected after await deleteNote(idToDelete): a false result
\* or an error puts the snapshot back at the head.
ContinueDelete(i) ==
  /\ Resumes(i, "delete")
  /\ IF calls[i].res.raised \/ ~calls[i].res.ok
     THEN /\ notes' = calls[i].k.snap \o notes
          /\ banner' = "Could not delete note."
          /\ bannerTimers' = bannerTimers
     ELSE /\ notes' = notes
          /\ banner' = "Note deleted"
          /\ bannerTimers' = [bannerTimers EXCEPT !.plain = @ + 1]
  /\ dirty' = (notes' # notes)
  /\ UNCHANGED <<shellVars, backendUrl, stored, now, nextId, issued, fellBack, legacy,
                 selectedId, draftTitle, draftContent, isDirty, savePhase,
                 isConfirmOpen, timer, timeouts, depSelNoteId, burst>>

\* ContinueUpdate looking up the note selected when the call settles instead
\* of the id in the callback's closure.
ContinueUpdateBySelection(i) ==
  /\ ~dirty
  /\ calls[i].phase = "resolved"
  /\ calls[i].k.kind = "update"
  /\ calls' = SubSeq(calls, 1, i - 1) \o SubSeq(calls, i + 1, Len(calls))
  /\ LET snapshot == calls[i].k.snap
         updatedFromApi == calls[i].res.note
     IN  IF calls[i].res.raised
         THEN /\ notes' = IF IsSome(snapshot)
                          THEN [j \in 1..Len(notes) |->
                                  IF notes[j].id = selectedId THEN Get(snapshot)
                                  ELSE notes[j]]
                          ELSE notes
              /\ banner' = "Autosave failed. Changes were reverted."
              /\ isDirty' = isDirty
         ELSE /\ notes' = IF IsSome(updatedFromApi)
                          THEN [j \in 1..Len(notes) |->
                                  IF notes[j].id = selectedId THEN Get(updatedFromApi)
                                  ELSE notes[j]]
                          ELSE notes
              /\ banner' = banner
              /\ isDirty' = FALSE
  /\ savePhase' = "saved"
  /\ dirty' = (notes' # notes)
  /\ UNCHANGED <<shellVars, backendUrl, stored, now, nextId, issued, fellBack, legacy,
                 selectedId, draftTitle, draftContent, isConfirmOpen, bannerTimers,
                 timer, timeouts, depSelNoteId, burst>>

\* ContinueUpdate with a catch block that sends the failed update again.
ContinueUpdateRetries(i) ==
  /\ ~dirty
  /\ calls[i].phase = "resolved"
  /\ calls[i].k.kind = "update"
  /\ LET id == calls[i].k.id
         snapshot == calls[i].k.snap
         updatedFromApi == calls[i].res.note
     IN  IF calls[i].res.raised
         THEN /\ notes' = IF IsSome(snapshot) THEN MapReplace(notes, id, Get(snapshot))
                          ELSE notes
              /\ banner' = "Autosave failed. Changes were reverted."
              /\ isDirty' = isDirty
              /\ calls' = Append(SubSeq(calls, 1, i - 1) \o SubSeq(calls, i + 1, Len(calls)),
                                 [calls[i] EXCEPT !.phase = "remote"])
         ELSE /\ notes' = IF IsSome(updatedFromApi)
                          THEN MapReplace(notes, id, Get(updatedFromApi)) ELSE notes
              /\ banner' = banner
              /\ isDirty' = FALSE
              /\ calls' = SubSeq(calls, 1, i - 1) \o SubSeq(calls, i + 1, Len(calls))
  /\ savePhase' = "saved"
  /\ dirty' = (notes' # notes)
  /\ UNCHANGED <<shellVars, backendUrl, stored, now, nextId, issued, fellBack, legacy,
                 selectedId, draftTitle, draftContent, isConfirmOpen, bannerTimers,
                 timer, timeouts, depSelNoteId, burst>>

\* The timer callback after await updateNote(...): a returned note replaces
\* the entry with the closure's id; the catch block puts the closure's
\* snapshot of selectedNote there.
ContinueUpdate(i) ==
  /\ Resumes(i, "update")
  /\ LET id == calls[i].k.id
         snapshot == calls[i].k.snap
         updatedFromApi == calls[i].res.note
     IN  IF calls[i].res.raised
         THEN /\ notes' = IF IsSome(snapshot) THEN MapReplace(notes, id, Get(snapshot))
                          ELSE notes
              /\ banner' = "Autosave failed. Changes were reverted."
              /\ isDirty' = isDirty
         ELSE /\ notes' = IF IsSome(updatedFromApi)
                          THEN MapReplace(notes, id, Get(updatedFromApi)) ELSE notes
              /\ banner' = banner
              /\ isDirty' = FALSE
  /\ savePhase' = "saved"
  /\ dirty' = (notes' # notes)
  /\ UNCHANGED <<shellVars, backendUrl, stored, now, nextId, issued, fellBack, legacy,
                 selectedId, draftTitle, draftContent, isConfirmOpen, bannerTimers,
                 timer, timeouts, depSelNoteId, burst>>

\* onSelectNote after await flushPendingAutosave(): the flush's try / catch
\* ends, then setSelectedId(id).
ContinueFlush(i) ==
  /\ Resumes(i, "flush")
  /\ IF calls[i].res.raised
     THEN /\ banner' = "Could not save changes (offline?)"
          /\ isDirty' = isDirty
     ELSE /\ banner' = banner
          /\ isDirty' = FALSE
  /\ savePhase' = "saved"
  /\ selectedId' = calls[i].k.target
  /\ dirty' = (selectedId' # selectedId)
  /\ UNCHANGED <<shellVars, backendUrl, stored, now, nextId, issued, fellBack, legacy, notes,
                 draftTitle, draftContent, isConfirmOpen, bannerTimers, timer, timeouts,
                 depSelNoteId, burst>>

\* A test double in place of the client: the awaited promise rejects.
SimReject(i) ==
  /\ Idle
  /\ calls[i].phase = "remote"
  /\ calls' = [calls EXCEPT ![i] = [@ EXCEPT !.phase = "resolved", !.res = Raised]]
  /\ UNCHANGED <<shellVars, backendUrl, stored, now, nextId, issued, fellBack>>
  /\ UNCHANGED sessionVars

Continues ==
  \E i \in 1..Len(calls) :
    \/ ContinueLoad(i)
    \/ ContinueCreate(i)
    \/ ContinueDelete(i)
    \/ ContinueUpdate(i)
    \/ ContinueFlush(i)

Edits ==
  \/ \E v \in TitleInputs : EditTitle(v)
  \/ \E v \in ContentInputs : EditContent(v)
  \/ TitleBlur

Selects == \E id \in Ids(notes) : SelectNote(id)

Next ==
  \/ Effects
  \/ Continues
  \/ SessionResponses
  \/ CreateNewNote
  \/ RequestDelete
  \/ CancelDelete
  \/ ConfirmDelete
  \/ Edits
  \/ TimerFires
  \/ Selects
  \/ BannerTimeout
  \/ LoadBannerTimeout

Spec == InitSession /\ [][Next]_vars

(* ------------------- properties of the edit session ------------------- *)

\* C1 (selection invariant): once the effects of the committed render have
\* run, the selected id is null exactly when the collection is empty, and
\* otherwise it is the id of a note of the collection.
SelectionInvariant ==
  ~dirty =>
    /\ (selectedId = NoId) <=> (notes = <<>>)
    /\ selectedId # NoId => HasId(notes, selectedId)

\* Every note has been deleted and the effects have cleared the selection.
SelectionInvariantWitness ==
  /\ ~dirty /\ depSelNoteId # NotMounted
  /\ notes = <<>> /\ selectedId = NoId
  /\ \E i \in 1..Len(calls) : calls[i].op = "delete"

\* The async handler of this kind that awaits call i resumes in this step.
Resumed(i, kind) ==
  /\ calls[i].phase = "resolved"
  /\ calls[i].k.kind = kind
  /\ calls' = RemoveAt(calls, i)

\* A handler has made a client call of this operation in this step.
Called(op) ==
  /\ Len(calls') = Len(calls) + 1
  /\ calls'[Len(calls')].op = op

\* C6 (debounce coalescing): after N >= 1 edits of the selected note, each
\* made while the timer of the one before was pending, no updateNote call is
\* made while the timer is pending and exactly one has been made once it is
\* not: for the edited note, with the title (as typed, or normalized) and the
\* content of the Nth edit.
DebounceCoalescing ==
  burst.edits >= 1 =>
    IF TimerPending THEN burst.persists = 0
    ELSE /\ burst.persists = 1
         /\ burst.sentId = burst.id
         /\ burst.sentContent = burst.content
         /\ burst.sentTitle \in {burst.title, NormalizeTitle(burst.title)}

\* C7: no step changes the selected id while the debounce timer of the
\* selected note is pending (the flush comes first and cancels the timer),
\* the note staying in the collection.
FlushBeforeSelectionChange ==
  [][~(/\ TimerPending
       /\ Get(timer).id = selectedId
       /\ HasId(notes', selectedId)
       /\ selectedId' # selectedId)]_vars

\* C8 (rollback correctness): when the updateNote call of the debounce
\* callback fails and the note is still in the collection, its entry becomes
\* what it was before the callback's optimistic patch, every other entry is
\* left as it is and the ids of the collection stay the same.
RollbackCorrectness ==
  [][\A i \in 1..Len(calls) :
       (/\ Resumed(i, "update")
        /\ calls[i].res.raised
        /\ IsSome(calls[i].k.pre)
        /\ HasId(notes, calls[i].k.id)) =>
         /\ Len(notes') = Len(notes)
         /\ \A j \in 1..Len(notes) :
              notes'[j] = IF notes[j].id = calls[i].k.id
                          THEN Get(calls[i].k.pre) ELSE notes[j]]_vars

\* C9 (delete with rollback): confirming the deletion takes the selected
\* note out of the collection while the deleteNote call is not yet answered;
\* the effects then select the first remaining note (none when there is
\* none); a false result or an error puts the note back at the head, leaves
\* the selected id as it is and shows the failure banner; a true result
\* leaves the collection as it is.
DeleteWithRollback ==
  [][/\ Called("delete") =>
          /\ HasId(notes, selectedId)
          /\ calls'[Len(calls')].id = selectedId
          /\ notes' = FilterOutId(notes, selectedId)
          /\ ~HasId(notes', selectedId)
          /\ calls'[Len(calls')].k.snap = Find(notes, selectedId)
     /\ (/\ dirty
         /\ ~HasId(notes, selectedId)
         /\ \E i \in 1..Len(calls) :
              calls[i].k.kind = "delete" /\ calls[i].k.id = selectedId) =>
          selectedId' = IF notes = <<>> THEN NoId ELSE notes[1].id
     /\ \A i \in 1..Len(calls) :
          Resumed(i, "delete") =>
            IF calls[i].res.raised \/ ~calls[i].res.ok
            THEN /\ notes' = calls[i].k.snap \o notes
                 /\ selectedId' = selectedId
                 /\ selectedId # NoId => HasId(notes', selectedId')
                 /\ banner' = "Could not delete note."
            ELSE /\ notes' = notes
                 /\ selectedId' = selectedId]_vars

\* The deleteNote call has answered false: the note is back at the head and
\* the note selected meanwhile, now the second, is still selected.
DeleteWithRollbackWitness ==
  /\ ~dirty
  /\ banner = "Could not delete note."
  /\ Len(notes) >= 2
  /\ selectedId = notes[2].id
  /\ \A i \in 1..Len(calls) : calls[i].op # "delete"

\* C10 (optimistic create without a backend): createNewNote puts one new
\* note with a fresh id at the head of the collection and selects it before
\* its createNote call is answered; when the handler resumes the collection
\* is one note longer than before the call, the created note, which
\* localStorage now holds, is at its head and selected, and the other notes
\* are as they were.
OptimisticCreateLocal ==
  [][Blank(backendUrl) =>
       /\ Called("create") =>
            /\ Len(notes') = Len(notes) + 1
            /\ Tail(notes') = notes
            /\ ~Falsy(notes'[1].id)
            /\ ~HasId(notes, notes'[1].id)
            /\ selectedId' = notes'[1].id
       /\ \A i \in 1..Len(calls) :
            Resumed(i, "create") =>
              /\ Len(notes') = calls[i].k.n0 + 1
              /\ Tail(notes') = Tail(notes)
              /\ IsSome(calls[i].res.note)
              /\ notes'[1] = Get(calls[i].res.note)
              /\ ~HasId(Tail(notes'), notes'[1].id)
              /\ selectedId' = notes'[1].id
              /\ HasId(ReadNotes(stored, now), notes'[1].id)]_vars

\* Without a backend a note has been created: it is the first of three, it
\* is selected and localStorage holds it.
OptimisticCreateLocalWitness ==
  /\ Blank(backendUrl)
  /\ ~dirty /\ calls = <<>>
  /\ banner = "Note created"
  /\ Len(notes) = 3
  /\ selectedId = notes[1].id
  /\ HasId(ReadNotes(stored, now), notes[1].id)

\* The positions of the collection that hold this id.
Positions(ns, id) == {j \in 1..Len(ns) : ns[j].id = id}

\* Call i is a createNote call that has settled with a note whose id is not
\* the placeholder's, and createNewNote resumes with it in this step.
Rekeys(i) ==
  /\ Resumed(i, "create")
  /\ ~calls[i].res.raised
  /\ IsSome(calls[i].res.note)
  /\ Get(calls[i].res.note).id # calls[i].k.id

\* C11 (rekey on create): when createNewNote resumes with a created note
\* whose id differs from the placeholder id, the collection afterwards holds
\* no entry with the placeholder id and exactly one entry with the new id,
\* where the placeholder was; the selected id becomes the new id when it was
\* the placeholder id and is unchanged otherwise.
RekeyOnCreate ==
  [][\A i \in 1..Len(calls) :
       Rekeys(i) =>
         LET tempId == calls[i].k.id
             newId == Get(calls[i].res.note).id
         IN  /\ Positions(notes', tempId) = {}
             /\ Cardinality(Positions(notes', newId)) = 1
             /\ Positions(notes', newId) = Positions(notes, tempId)
             /\ selectedId' = IF selectedId = tempId THEN newId ELSE selectedId]_vars

\* The entries of the collection whose id is not this one, in their order.
Others(ns, id) == SelectSeq(ns, LAMBDA n : n.id # id)

\* C12 (failed create): when the createNote call that createNewNote awaits
\* raises, the optimistic entry is taken out of the collection, every other
\* entry stays as and where it is, and the selected id becomes null when it
\* was the optimistic entry's id and is unchanged otherwise.
FailedCreate ==
  [][\A i \in 1..Len(calls) :
       (Resumed(i, "create") /\ calls[i].res.raised) =>
         LET tempId == calls[i].k.id
         IN  /\ ~HasId(notes', tempId)
             /\ notes' = Others(notes, tempId)
             /\ selectedId' = IF selectedId = tempId THEN NoId ELSE selectedId]_vars

\* A createNote call has raised while its optimistic entry was selected: the
\* entry is gone, the other notes are there and no note is selected.
FailedCreateWitness ==
  /\ banner = "Could not create note."
  /\ dirty
  /\ selectedId = NoId
  /\ Len(notes) >= 2
  /\ \A i \in 1..Len(calls) : calls[i].op # "create"

\* C13 (id uniqueness): no two entries of the collection have the same id.
IdUniqueness ==
  \A j, k \in 1..Len(notes) : notes[j].id = notes[k].id => j = k

\* C15 (one debounce timer): setTimeout holds at most one debounce callback
\* that has neither run nor been cleared, the one autosaveTimerRef refers to;
\* after an edit that scheduled a persist (the selected id is not empty) it
\* is that edit's, so the callback of an earlier edit, cleared when the
\* later one was scheduled, does not run.
OneDebounceTimer ==
  /\ Cardinality(timeouts) <= 1
  /\ \A tm \in timeouts :
       /\ TimerPending
       /\ timer = Some(tm)
       /\ (burst.edits >= 1 /\ ~Falsy(burst.id)) =>
            tm.id = burst.id /\ tm.title = burst.title /\ tm.content = burst.content

\* Two edits have been made, the second while the timeout of the first was
\* pending: one callback is held and it carries the second edit.
OneDebounceTimerWitness ==
  /\ burst.edits = 2
  /\ Cardinality(timeouts) = 1
  /\ \E tm \in timeouts : tm.title = draftTitle /\ tm.content = draftContent

\* C17 (one durable key): every write of the note collection to
\* localStorage, by the session or by the local fallback operations, goes to
\* the one array that readNotes reads: after the write readNotes returns the
\* array that was written.
SingleDurableKey ==
  [][(legacy' # legacy \/ stored' # stored) =>
       LET written == IF legacy' # legacy THEN legacy' ELSE stored'
       IN  ReadNotes(stored', now') = written.items]_vars

SimRejects == \E i \in 1..Len(calls) : SimReject(i)

NextSim == Next \/ SimRejects

SpecSim == InitSession /\ [][NextSim]_vars

(* ------------- the session of a user who edits and switches ------------ *)

\* The app starts one unit of time earlier on the collection of an earlier
\* session and the user only edits notes and selects notes: one more handler
\* runs than in Spec.
InitEditing ==
  /\ backendUrl \in SessionUrls
  /\ \E p \in InitStores : ~Seeds(p[1], StartTime - 1) /\ legacy = p[1] /\ stored = p[2]
  /\ now = StartTime - 1
  /\ notes = loadNotesWithSeed(legacy, now, 1)
  /\ selectedId = loadNotesWithSeed(legacy, now, 3)[1].id
  /\ nextId = 1
  /\ calls = <<>>
  /\ issued = 0
  /\ fellBack = [any |-> FALSE, again |-> FALSE]
  /\ draftTitle = Get(SelectedNote(notes, selectedId)).title
  /\ draftContent = Get(SelectedNote(notes, selectedId)).content
  /\ isDirty = FALSE
  /\ savePhase = "saved"
  /\ isConfirmOpen = FALSE
  /\ banner = ""
  /\ bannerTimers = [keep |-> 0, plain |-> 0]
  /\ timer = None
  /\ timeouts = {}
  /\ dirty = TRUE
  /\ depSelNoteId = NotMounted
  /\ burst = NoBurst
  /\ InitShell
  /\ setItemThrows = FALSE

EditingContinues ==
  \E i \in 1..Len(calls) :
    \/ ContinueLoad(i)
    \/ ContinueUpdate(i)
    \/ ContinueFlush(i)

NextEditing ==
  \/ Effects
  \/ EditingContinues
  \/ SessionResponses
  \/ SimRejects
  \/ Edits
  \/ TimerFires
  \/ Selects
  \/ LoadBannerTimeout

SpecEditing == InitEditing /\ [][NextEditing]_vars

(* ---------------- properties of editing and switching ----------------- *)

\* C14 (reconciliation by id): the updateNote call of the debounce callback
\* is made for the id in the callback's closure; when the callback resumes,
\* the returned note (or, on an error, the closure's snapshot) replaces the
\* entries with that id and no other entry changes, whichever note is
\* selected by then; the call of a flush changes no entry when it settles.
ReconciliationById ==
  [][\A i \in 1..Len(calls) :
       /\ Resumed(i, "update") =>
            LET X == calls[i].k.id
                repl == IF calls[i].res.raised THEN calls[i].k.snap
                        ELSE calls[i].res.note
            IN  /\ calls[i].id = X
                /\ IsSome(repl) => Get(repl).id = X
                /\ Len(notes') = Len(notes)
                /\ \A j \in 1..Len(notes) :
                     notes'[j] = IF notes[j].id = X /\ IsSome(repl)
                                 THEN Get(repl) ELSE notes[j]
       /\ Resumed(i, "flush") => notes' = notes]_vars

\* The backend's canonical record of note 11 (createdAt and updatedAt are
\* the backend's) is in the collection; the backend stamped it after the
\* third handler (the edit, the timer callback, the selection of note 12)
\* had run, and the entry of note 12, now selected, is the stored one.
ReconciliationByIdWitness ==
  /\ calls = <<>>
  /\ selectedId = 12
  /\ HasId(notes, 12) /\ Get(Find(notes, 12)) = P2
  /\ HasId(notes, 11) /\ Get(Find(notes, 11)).createdAt = 1
  /\ Get(Find(notes, 11)).updatedAt = StartTime + 2

\* C16 (no cross-note data bleed).  The drafts are those of the selected
\* note: they change by typing, which needs the selected note to be the one
\* the draft-sync effect last loaded them for, or by that effect loading the
\* selected note's entry.  A debounce callback is scheduled for the selected
\* id with the drafts as typed; its updateNote call and the call of a flush
\* are made for that id with those values (the title normalized), and the
\* optimistic patch that goes with the call changes no entry of another id.
NoCrossNoteBleed ==
  [][/\ (draftTitle' # draftTitle \/ draftContent' # draftContent) =>
          \/ /\ ~dirty /\ depSelNoteId = selectedId /\ selectedId' = selectedId
             /\ HasId(notes, selectedId)
          \/ /\ dirty /\ depSelNoteId' # depSelNoteId
             /\ draftTitle' = (IF HasId(notes, selectedId)
                               THEN Get(Find(notes, selectedId)).title ELSE <<>>)
             /\ draftContent' = (IF HasId(notes, selectedId)
                                 THEN Get(Find(notes, selectedId)).content ELSE <<>>)
     /\ \A tm \in timeouts' \ timeouts :
          /\ tm.id = selectedId /\ depSelNoteId = selectedId
          /\ tm.title = draftTitle' /\ tm.content = draftContent'
     /\ Called("update") =>
          LET c == calls'[Len(calls')]
          IN  /\ \/ /\ c.k.kind = "update"
                    /\ \E tm \in timeouts \ timeouts' :
                         /\ c.id = tm.id
                         /\ c.arg.title = NormalizeTitle(tm.title)
                         /\ c.arg.content = tm.content
                 \/ /\ c.k.kind = "flush"
                    /\ c.id = selectedId /\ depSelNoteId = selectedId
                    /\ c.arg.title = NormalizeTitle(draftTitle)
                    /\ c.arg.content = draftContent
              /\ Len(notes') = Len(notes)
              /\ \A j \in 1..Len(notes) :
                   notes[j].id # c.id => notes'[j] = notes[j]]_vars

\* The content typed for note 11 was flushed when the user selected note 12:
\* it is in the entry of note 11, the entry of note 12 is the stored one and
\* the drafts are those of note 12.
NoCrossNoteBleedWitness ==
  /\ ~dirty /\ calls = <<>>
  /\ selectedId = 12 /\ depSelNoteId = 12
  /\ HasId(notes, 11) /\ Get(Find(notes, 11)).content = <<"c">>
  /\ HasId(notes, 12) /\ Get(Find(notes, 12)) = P2
  /\ draftTitle = P2.title /\ draftContent = P2.content

(* ---------------------- the derived list (SpecView) --------------------- *)

SortOrders == {"updated_desc", "created_desc", "title_asc"}

\* String.prototype.toLowerCase, for the letters the inputs use.
LowerChar(c) ==
  CASE c = "A" -> "a" [] c = "B" -> "b" [] c = "U" -> "u" [] OTHER -> c

ToLowerCase(s) == [i \in 1..Len(s) |-> LowerChar(s[i])]

\* The collation order of the characters the inputs use: white space before
\* letters, letters in alphabetical order.
Alphabet == <<"\n", " ", "a", "b", "c", "d", "e", "i", "l", "n", "o", "p",
              "q", "s", "t", "u">>

Rank(c) ==
  IF \E i \in 1..Len(Alphabet) : Alphabet[i] = c
  THEN CHOOSE i \in 1..Len(Alphabet) : Alphabet[i] = c
  ELSE 0

\* String.prototype.localeCompare on lower-case strings: negative, zero or
\* positive.
RECURSIVE LocaleCompare(_, _)
LocaleCompare(s, t) ==
  IF s = <<>> THEN (IF t = <<>> THEN 0 ELSE -1)
  ELSE IF t = <<>> THEN 1
  ELSE IF Rank(Head(s)) # Rank(Head(t)) THEN Rank(Head(s)) - Rank(Head(t))
  ELSE LocaleCompare(Tail(s), Tail(t))

\* x || 0 for a timestamp, x || "" for a text.
OrZero(t) == IF t = NoTime THEN 0 ELSE t
OrEmpty(s) == IF s = NoText THEN <<>> ELSE s

\* ((n.title || "").trim() || "Untitled note").toLowerCase()
TitleKey(n) ==
  ToLowerCase(IF Trim(OrEmpty(n.title)) = <<>> THEN UntitledNote
              ELSE Trim(OrEmpty(n.title)))

\* sortNotes with a blank title compared as it is.
sortNotesBlankFirst(a, b, order) ==
  IF order = "created_desc" THEN OrZero(b.createdAt) - OrZero(a.createdAt)
  ELSE IF order = "title_asc"
       THEN LocaleCompare(ToLowerCase(Trim(OrEmpty(a.title))),
                          ToLowerCase(Trim(OrEmpty(b.title))))
       ELSE OrZero(b.updatedAt) - OrZero(a.updatedAt)

sortNotes(a, b, order) ==
  IF order = "created_desc" THEN OrZero(b.createdAt) - OrZero(a.createdAt)
  ELSE IF order = "title_asc" THEN LocaleCompare(TitleKey(a), TitleKey(b))
       ELSE OrZero(b.updatedAt) - OrZero(a.updatedAt)

isNoteFullyEmpty(n) ==
  LET t == Trim(OrEmpty(n.title))
      c == Trim(OrEmpty(n.content))
      titleMeaningful == Len(t) > 0 /\ ToLowerCase(t) # ToLowerCase(UntitledNote)
  IN  ~titleMeaningful /\ Len(c) = 0

\* Array.prototype.sort with the comparator sortNotes: stable.
RECURSIVE InsertBy(_, _, _)
InsertBy(sorted, x, order) ==
  IF sorted = <<>> THEN <<x>>
  ELSE IF sortNotes(Head(sorted), x, order) <= 0
       THEN <<Head(sorted)>> \o InsertBy(Tail(sorted), x, order)
       ELSE <<x>> \o sorted

RECURSIVE SortBy(_, _)
SortBy(arr, order) ==
  IF arr = <<>> THEN <<>>
  ELSE InsertBy(SortBy(SubSeq(arr, 1, Len(arr) - 1), order), arr[Len(arr)], order)

\* String.prototype.includes
Includes(hay, q) ==
  \E i \in 1..(Len(hay) - Len(q) + 1) : SubSeq(hay, i, i + Len(q) - 1) = q

\* `${n.title}\n${n.content}`.toLowerCase()
Hay(n) == ToLowerCase(n.title \o <<"\n">> \o n.content)

\* The memo with sort applied to the array it filters: when nothing is
\* filtered out that array is the notes state itself.
filteredNotesInPlace(ns, q0, order, only) ==
  LET q == ToLowerCase(Trim(q0))
      baseFiltered == IF only THEN SelectSeq(ns, LAMBDA n : ~isNoteFullyEmpty(n)) ELSE ns
      sorted == SortBy(baseFiltered, order)
  IN  [list |-> IF q = <<>> THEN sorted
                ELSE SelectSeq(sorted, LAMBDA n : Includes(Hay(n), q)),
       notes |-> IF only THEN ns ELSE sorted]

\* The filteredNotes memo. list: the value of the memo; notes: the array held
\* by the notes state after the computation (sort works in place, here on the
\* copy [...baseFiltered]).
filteredNotes(ns, q0, order, only) ==
  LET q == ToLowerCase(Trim(q0))
      baseFiltered == IF only THEN SelectSeq(ns, LAMBDA n : ~isNoteFullyEmpty(n)) ELSE ns
      sorted == SortBy(baseFiltered, order)
  IN  [list |-> IF q = <<>> THEN sorted
                ELSE SelectSeq(sorted, LAMBDA n : Includes(Hay(n), q)),
       notes |-> ns]

\* The list the sidebar shows.
View == filteredNotes(notes, query, sortOrder, onlyWithContent).list

ViewTitles == {<<>>, <<"A">>, <<"b">>, UntitledNote}
\* content, createdAt, updatedAt
ViewBodies == {<<<<>>, 0, 2>>, <<<<"c">>, 1, 1>>}

\* The collections of at most MaxNotes notes, the note at position i with id i.
ViewCollections ==
  UNION {{[i \in 1..n |-> Note(i, f[i][1], f[i][2][1], f[i][2][2], f[i][2][3])] :
            f \in [1..n -> ViewTitles \X ViewBodies]} :
         n \in 0..MaxNotes}

Queries == {<<>>, <<"A">>, <<" ", "c">>}

InitView ==
  /\ backendUrl = None
  /\ stored = Absent
  /\ legacy = Absent
  /\ now = StartTime
  /\ nextId = 1
  /\ calls = <<>>
  /\ issued = 0
  /\ fellBack = [any |-> FALSE, again |-> FALSE]
  /\ notes \in ViewCollections
  /\ selectedId = (IF notes = <<>> THEN NoId ELSE notes[1].id)
  /\ draftTitle = (IF notes = <<>> THEN <<>> ELSE notes[1].title)
  /\ draftContent = (IF notes = <<>> THEN <<>> ELSE notes[1].content)
  /\ isDirty = FALSE
  /\ savePhase = "saved"
  /\ isConfirmOpen = FALSE
  /\ banner = ""
  /\ bannerTimers = [keep |-> 0, plain |-> 0]
  /\ timer = None
  /\ timeouts = {}
  /\ dirty = FALSE
  /\ depSelNoteId = selectedId
  /\ burst = NoBurst
  /\ InitShell
  /\ setItemThrows = FALSE

\* The render after a change of the search text, the sort order or the
\* filter: the memo is computed again.
Rerender(q, order, only) ==
  /\ notes' = filteredNotes(notes, q, order, only).notes
  /\ UNCHANGED <<backendUrl, stored, now, nextId, calls, issued, fellBack,
                 legacy, selectedId, draftTitle, draftContent, isDirty,
                 savePhase, isConfirmOpen, banner, bannerTimers, timer,
                 timeouts, dirty, depSelNoteId, burst, isOnline, setItemThrows>>

\* onChange of the search box.
SetQuery ==
  \E q \in Queries :
    /\ query' = q
    /\ UNCHANGED <<sortOrder, onlyWithContent>>
    /\ Rerender(q, sortOrder, onlyWithContent)

\* onChange of the sort select.
SetSortOrder ==
  \E order \in SortOrders :
    /\ sortOrder' = order
    /\ UNCHANGED <<query, onlyWithContent>>
    /\ Rerender(query, order, onlyWithContent)

\* onChange of the "Only with content" check box.
SetOnlyWithContent ==
  \E only \in BOOLEAN :
    /\ onlyWithContent' = only
    /\ UNCHANGED <<query, sortOrder>>
    /\ Rerender(query, sortOrder, only)

NextView == SetQuery \/ SetSortOrder \/ SetOnlyWithContent

SpecView == InitView /\ [][NextView]_vars

\* C21 (the derived view is a pure projection): computing the filtered and
\* sorted list after any change of the query, the sort order or the filter
\* leaves the collection (entries and order), the draft and the selection as
\* they were.
ViewIsPure ==
  [][(SetQuery \/ SetSortOrder \/ SetOnlyWithContent) =>
       /\ notes' = notes
       /\ draftTitle' = draftTitle /\ draftContent' = draftContent
       /\ selectedId' = selectedId]_vars

\* A search text was entered, nothing is filtered out by the check box, and
\* the list shows two notes in the opposite order of the collection.
ViewIsPureWitness ==
  /\ query # <<>> /\ ~onlyWithContent
  /\ \E i, j \in 1..Len(notes), k, l \in 1..Len(View) :
       i < j /\ l < k /\ View[k] = notes[i] /\ View[l] = notes[j]

\* A note passes the filters.
Passes(n) ==
  /\ onlyWithContent =>
       \/ Trim(n.content) # <<>>
       \/ (Trim(n.title) # <<>> /\ ToLowerCase(Trim(n.title)) # ToLowerCase(UntitledNote))
  /\ Trim(query) # <<>> => Includes(Hay(n), ToLowerCase(Trim(query)))

\* s comes before t or equals it, letter by letter.
RECURSIVE Leq(_, _)
Leq(s, t) ==
  \/ s = <<>>
  \/ /\ t # <<>>
     /\ \/ Rank(Head(s)) < Rank(Head(t))
        \/ Rank(Head(s)) = Rank(Head(t)) /\ Leq(Tail(s), Tail(t))

\* C22 (derived-view ordering): the list is a permutation of the notes that
\* pass the filters, by updatedAt descending by default, by createdAt
\* descending for created_desc, and for title_asc by title ascending, case
\* ignored and a blank title taken as "Untitled note".
ViewOrdering ==
  /\ Len(View) = Cardinality({i \in 1..Len(notes) : Passes(notes[i])})
  /\ \A i \in 1..Len(notes) :
       Passes(notes[i]) <=> \E k \in 1..Len(View) : View[k] = notes[i]
  /\ \A k, l \in 1..Len(View) :
       k < l =>
         CASE sortOrder = "created_desc" -> View[k].createdAt >= View[l].createdAt
           [] sortOrder = "title_asc" ->
                Leq(ToLowerCase(IF Trim(View[k].title) = <<>> THEN UntitledNote
                                ELSE Trim(View[k].title)),
                    ToLowerCase(IF Trim(View[l].title) = <<>> THEN UntitledNote
                                ELSE Trim(View[l].title)))
           [] OTHER -> View[k].updatedAt >= View[l].updatedAt

\* Titles "b", "A" and "" in the collection come out as "A", "b", "".
ViewOrderingWitness ==
  /\ sortOrder = "title_asc" /\ query = <<>> /\ ~onlyWithContent
  /\ Len(notes) = 3
  /\ notes[1].title = <<"b">> /\ notes[2].title = <<"A">> /\ notes[3].title = <<>>
  /\ View = <<notes[2], notes[1], notes[3]>>

(* ---------------- title derivation on blur (SpecBlur) ------------------- *)

Rep(c, n) == [i \in 1..n |-> c]

\* Contents of the note under the editor: blank; a first non-blank line after
\* a blank one; a line of TitleMax letters; one letter more; a line whose
\* character TitleMax is a space.
BlurContents ==
  {<<" ", "\n">>,
   <<"\n", " ", "c", " ">>,
   Rep("a", TitleMax),
   Rep("a", TitleMax + 1),
   Rep("a", TitleMax - 1) \o <<" ", "b">>}

\* An earlier session left two notes, the first with a blank title.
InitBlur ==
  /\ backendUrl \in SessionUrls
  /\ \E ti \in {<<>>, <<" ">>}, co \in BlurContents :
       legacy = Stored(<<Note(11, ti, co, 0, 1), P2>>)
  /\ stored = Absent
  /\ now = StartTime
  /\ notes = loadNotesWithSeed(legacy, now, 1)
  /\ selectedId = loadNotesWithSeed(legacy, now, 3)[1].id
  /\ nextId = 1
  /\ calls = <<>>
  /\ issued = 0
  /\ fellBack = [any |-> FALSE, again |-> FALSE]
  /\ draftTitle = Get(SelectedNote(notes, selectedId)).title
  /\ draftContent = Get(SelectedNote(notes, selectedId)).content
  /\ isDirty = FALSE
  /\ savePhase = "saved"
  /\ isConfirmOpen = FALSE
  /\ banner = ""
  /\ bannerTimers = [keep |-> 0, plain |-> 0]
  /\ timer = None
  /\ timeouts = {}
  /\ dirty = TRUE
  /\ depSelNoteId = NotMounted
  /\ burst = NoBurst
  /\ InitShell
  /\ setItemThrows = FALSE

SpecBlur == InitBlur /\ [][NextEditing]_vars

\* The title field loses focus while the draft title is blank: the draft
\* title becomes this title, the draft is dirty, and a debounced persist
\* carrying the title is scheduled for the selected id unless that id is
\* empty.
BlurDerives(title) ==
  (TitleBlur /\ Trim(draftTitle) = <<>>) =>
    /\ draftTitle' = title
    /\ isDirty'
    /\ ~Falsy(selectedId) =>
         /\ timer' = Some(TimerClosure(selectedId, title, draftContent,
                                       SelectedNote(notes, selectedId)))
         /\ Get(timer') \in timeouts'

JsError(name, code, message) == [name |-> name, code |-> code, message |-> message]

\* What fetch rejects with: the abort of the AbortController, a network
\* failure with and without a message.
AbortError == JsError("AbortError", None, Some("The operation was aborted."))
Rejections ==
  {AbortError, JsError("TypeError", None, Some("Failed to fetch")),
   JsError("TypeError", None, None)}

\* One exchange with the backend: fetch rejects with err, or resolves with a
\* response of this status whose body is JSON text, other text, empty, or
\* cannot be read to its end.
Rejected(err) == [rejected |-> TRUE, err |-> err, status |-> 0, body |-> "empty"]
Response(status, body) ==
  [rejected |-> FALSE, err |-> AbortError, status |-> status, body |-> body]

Statuses == {200, 204, 404, 500}
Bodies == {"json", "text", "empty", "unreadable"}
Exchanges ==
  {Rejected(e) : e \in Rejections} \cup
  {Response(s, b) : s \in Statuses, b \in Bodies}

\* What a step of the attempt throws, if it throws.
Throw(code, message) == [threw |-> TRUE, code |-> code, message |-> message]
NoThrow == [threw |-> FALSE, code |-> "", message |-> ""]

\* normalizeError for an error object.
normalizeError(err, fallbackCode, fallbackMessage) ==
  Throw(IF IsSome(err.code) THEN Get(err.code) ELSE fallbackCode,
        IF IsSome(err.message) THEN Get(err.message) ELSE fallbackMessage)

\* safeFetchInternal without the test for an AbortError.
safeFetchInternalNoAbortTest(x) ==
  IF x.rejected
  THEN normalizeError(x.err, "FETCH_FAILED", "Network request failed")
  ELSE NoThrow

safeFetchInternal(x) ==
  IF x.rejected
  THEN LET n == normalizeError(x.err, "FETCH_FAILED", "Network request failed")
       IN  IF x.err.name = "AbortError"
           THEN Throw("TIMEOUT", "Request timed out")
           ELSE n
  ELSE NoThrow

\* parseJson: res.text() or JSON.parse throws.
parseJson(x) ==
  IF x.body \in {"unreadable", "text"}
  THEN Throw("BAD_JSON", "Invalid JSON response")
  ELSE NoThrow

\* res.ok
Ok(x) == x.status >= 200 /\ x.status <= 299

\* `HTTP_${res.status}`
HttpCode(status) ==
  CASE status = 404 -> "HTTP_404"
    [] status = 500 -> "HTTP_500"
    [] OTHER -> "HTTP_"

\* throwIfNotOk: the message is the payload's, res.statusText or a default.
throwIfNotOk(x) ==
  IF Ok(x) THEN NoThrow
  ELSE Throw(HttpCode(x.status),
             IF parseJson(x).threw \/ x.body = "empty" THEN "status text"
             ELSE "payload message")

\* The try block of a public operation up to the parsed body: safeFetch,
\* throwIfNotOk, and parseJson unless the operation is deleteNote.
RemoteAttempt(op, x) ==
  IF safeFetchInternal(x).threw THEN safeFetchInternal(x)
  ELSE IF throwIfNotOk(x).threw THEN throwIfNotOk(x)
  ELSE IF op # "delete" THEN parseJson(x)
  ELSE NoThrow

InitErrors ==
  /\ backendUrl = Some(<<"h">>)
  /\ stored = Absent
  /\ now = StartTime
  /\ nextId = 1
  /\ calls = <<>>
  /\ issued = 0
  /\ fellBack = [any |-> FALSE, again |-> FALSE]
  /\ InitSessionIdle

\* One remote attempt of getNote or deleteNote, with what it throws.
Attempt ==
  \E op \in {"get", "delete"}, x \in Exchanges :
    /\ issued < MaxClientCalls
    /\ Len(calls) < MaxInflight
    /\ calls' = Append(calls,
                       Call(op, NoId, x, "resolved", 1, 0, RemoteAttempt(op, x).threw,
                            RemoteAttempt(op, x), NoCont))
    /\ issued' = issued + 1
    /\ UNCHANGED <<shellVars, backendUrl, stored, now, nextId, fellBack>>
    /\ UNCHANGED sessionVars

NextErrors == Attempt \/ ClientReturns

SpecErrors == InitErrors /\ [][NextErrors]_vars

\* C24 (closed error taxonomy): what a remote attempt throws is a
\* {code, message} of two strings whose code is TIMEOUT when the timeout
\* aborted the request, FETCH_FAILED for another transport failure,
\* HTTP_<status> for a non-2xx response whatever its body, BAD_JSON for a 2xx
\* response whose body does not parse; each of these cases throws.
ErrorTaxonomy ==
  \A i \in 1..Len(calls) :
    LET x == calls[i].arg
        e == calls[i].res
    IN  /\ e.threw =>
              /\ e.message # ""
              /\ e.code = (IF x.rejected
                           THEN (IF x.err = AbortError THEN "TIMEOUT" ELSE "FETCH_FAILED")
                           ELSE IF x.status \notin {200, 204}
                                THEN (IF x.status = 404 THEN "HTTP_404" ELSE "HTTP_500")
                                ELSE "BAD_JSON")
              /\ e.code = "BAD_JSON" => x.body \in {"text", "unreadable"}
        /\ (x.rejected \/ x.status \notin {200, 204}) => e.threw
        /\ (~x.rejected /\ x.status \in {200, 204} /\ x.body = "text"
            /\ calls[i].op # "delete") => e.threw

\* A timed-out request and a 404 whose body is not JSON have both thrown.
ErrorTaxonomyWitness ==
  /\ Len(calls) = 2
  /\ calls[1].arg = Rejected(AbortError) /\ calls[1].res.code = "TIMEOUT"
  /\ calls[2].arg = Response(404, "text") /\ calls[2].res.code = "HTTP_404"

(* ------------- the timeout of a remote request (SpecTimeout) ------------ *)

\* The timer of safeFetchInternal fires while fetch is pending: the request
\* is aborted, TIMEOUT is thrown and the catch block runs the local operation.
TimeoutAborts(i) == RemoteResponds(i, Fails("TIMEOUT"))

\* fetch rejects before the timer fires.
FetchRejects(i) == RemoteResponds(i, Fails("FETCH_FAILED"))

\* fetch resolves with the response: the finally block clears the timer.
\* deleteNote returns at once when the status is 2xx; otherwise the body is
\* read next, by throwIfNotOk or by parseJson.
HeadersArrive(i) ==
  /\ Idle
  /\ calls[i].phase = "remote"
  /\ \/ calls[i].op = "delete" /\ RemoteResponds(i, OkEmpty)
     \/ /\ calls' = [calls EXCEPT ![i].phase = "body"]
        /\ UNCHANGED <<shellVars, backendUrl, stored, now, nextId, issued, fellBack>>
        /\ UNCHANGED sessionVars

\* res.text() settles: the rest of the try block runs, or the catch block.
BodyRead(i, o) ==
  /\ Idle
  /\ calls[i].phase = "body"
  /\ o.kind \notin {"TIMEOUT", "FETCH_FAILED"}
  /\ calls[i].op = "delete" => o.kind = "HTTP"
  /\ calls[i].op = "create" => nextId <= MaxIds
  /\ LET fin == ClientFinish(calls[i], o, stored, now, nextId)
     IN  /\ calls' = [calls EXCEPT ![i] = fin.call]
         /\ stored' = SetItem(stored, fin.st)
         /\ fellBack' = [fellBack EXCEPT !.any = @ \/ fin.call.failed]
  /\ nextId' = IF calls[i].op = "create" THEN nextId + 1 ELSE nextId
  /\ UNCHANGED <<shellVars, backendUrl, now, issued>>
  /\ UNCHANGED sessionVars

Timeouts == \E i \in 1..Len(calls) : TimeoutAborts(i)
Rejects == \E i \in 1..Len(calls) : FetchRejects(i)
Headers == \E i \in 1..Len(calls) : HeadersArrive(i)
BodyReads ==
  \E i \in 1..Len(calls) :
    \E o \in Outcomes(calls[i], now, ServerId(nextId)) \cup {Fails("HTTP")} : BodyRead(i, o)

NextTimeout ==
  ClientCalls \/ Timeouts \/ Rejects \/ Headers \/ BodyReads \/ ClientReturns

\* A backend is configured.
InitTimeout ==
  /\ backendUrl = Some(<<"h">>)
  /\ stored \in {Absent, Stored(<<N1>>)}
  /\ now = MaxTime - 1
  /\ nextId = 3
  /\ calls = <<>>
  /\ issued = 0
  /\ fellBack = [any |-> FALSE, again |-> FALSE]
  /\ InitSessionIdle

\* The browser runs a timer that was not cleared and resumes the caller of a
\* settled promise; the backend owes nothing.
SpecTimeout ==
  /\ InitTimeout
  /\ [][NextTimeout]_vars
  /\ WF_vars(Timeouts)
  /\ WF_vars(ClientReturns)

\* C25 (every operation completes): whatever the backend does, again and
\* again no call of the client is pending: not while fetch is pending, and not
\* while the body of the response is read.
EveryCallCompletes ==
  []<>(\A i \in 1..Len(calls) : calls[i].phase = "resolved")

(* ------------------ local operations on an absent id -------------------- *)

\* The step runs the local operation of the call that is calls'[i]: at the
\* call when no backend is configured, in the catch block otherwise.
RanLocal(i) ==
  /\ i \in 1..Len(calls')
  /\ calls'[i].phase = "resolved" /\ calls'[i].locals = 1
  /\ i > Len(calls) \/ calls[i].phase = "remote"

CleanAfterFailedPersist ==
  (/\ banner = "Autosave failed. Changes were reverted."
   /\ Idle /\ calls = <<>> /\ ~TimerPending /\ timeouts = {}
   /\ IsSome(SelectedNote(notes, selectedId))) =>
    /\ ~isDirty
    /\ savePhase = "saved"
    /\ draftTitle = Get(SelectedNote(notes, selectedId)).title
    /\ draftContent = Get(SelectedNote(notes, selectedId)).content

\* The step in which the debounce callback learns that its updateNote call,
\* calls[i], has failed.
PersistFails(i) ==
  /\ calls[i].phase = "resolved" /\ calls[i].k.kind = "update"
  /\ calls[i].res.raised
  /\ calls' # calls

\* C28 (no automatic retry): the step that handles the failure of a debounced
\* update makes no client call and schedules no timer; a debounce timer is
\* scheduled only with the selected id and the draft as the scheduling edit
\* leaves it; while the failure banner is shown, an updateNote call is made
\* only by such a timer, with its id, title (normalized) and content, or by
\* the flush of a selection change, with the selected id and the draft.
NoAutomaticRetry ==
  [][/\ \A i \in 1..Len(calls) :
          PersistFails(i) =>
            /\ calls' = RemoveAt(calls, i)
            /\ timer' = timer /\ timeouts' = timeouts
     /\ \A tm \in timeouts' \ timeouts :
          tm.id = selectedId /\ tm.title = draftTitle' /\ tm.content = draftContent'
     /\ (banner = "Autosave failed. Changes were reverted." /\ Called("update")) =>
          LET c == calls'[Len(calls')]
          IN  \/ /\ TimerFires
                 /\ \E tm \in timeouts \ timeouts' :
                      /\ c.id = tm.id
                      /\ c.arg.title = NormalizeTitle(tm.title)
                      /\ c.arg.content = tm.content
              \/ /\ Selects
                 /\ c.id = selectedId
                 /\ c.arg.title = NormalizeTitle(draftTitle)
                 /\ c.arg.content = draftContent]_vars

\* After the failure of the debounced update of note 11 the user has selected
\* another note: the flush has called updateNote for note 11 with the draft.
NoAutomaticRetryWitness ==
  /\ banner = "Autosave failed. Changes were reverted."
  /\ Len(calls) = 1
  /\ calls[1].k.kind = "flush" /\ calls[1].id = 11 /\ calls[1].k.target = 12
  /\ calls[1].arg.title = NormalizeTitle(draftTitle)
  /\ calls[1].arg.content = draftContent

(* ------------- localStorage.setItem throws (SpecQuota) ------------------ *)

\* The session of Spec in a browser whose localStorage cannot be written:
\* the quota is used up, or storage is disabled for writing.
InitQuota ==
  /\ backendUrl \in SessionUrls
  /\ \E p \in InitStores : legacy = p[1] /\ stored = p[2]
  /\ now = StartTime
  /\ notes = loadNotesWithSeed(legacy, now, 1)
  /\ selectedId = loadNotesWithSeed(legacy, now, 3)[1].id
  /\ nextId = IF Seeds(legacy, now) THEN 5 ELSE 1
  /\ calls = <<>>
  /\ issued = 0
  /\ fellBack = [any |-> FALSE, again |-> FALSE]
  /\ draftTitle = (IF IsSome(SelectedNote(notes, selectedId))
                   THEN Get(SelectedNote(notes, selectedId)).title ELSE <<>>)
  /\ draftContent = (IF IsSome(SelectedNote(notes, selectedId))
                     THEN Get(SelectedNote(notes, selectedId)).content ELSE <<>>)
  /\ isDirty = FALSE
  /\ savePhase = "saved"
  /\ isConfirmOpen = FALSE
  /\ banner = ""
  /\ bannerTimers = [keep |-> 0, plain |-> 0]
  /\ timer = None
  /\ timeouts = {}
  /\ dirty = TRUE
  /\ depSelNoteId = NotMounted
  /\ burst = NoBurst
  /\ InitShell
  /\ setItemThrows = TRUE

SpecQuota == InitQuota /\ [][Next]_vars

\* C29 (a failing durable write stays invisible), for deletion: without a
\* backend, the deletion of a note that was created in this session is not
\* rolled back and shows no failure banner, whether localStorage can be
\* written or not.
WriteFailureInvisible ==
  [][\A i \in 1..Len(calls) :
       (/\ Resumed(i, "delete")
        /\ ~isBackendEnabled(backendUrl)
        /\ Get(calls[i].k.snap).createdAt >= StartTime) =>
         /\ notes' = notes
         /\ banner' # "Could not delete note."]_vars

(* ------------------ connectivity (SpecConnectivity) --------------------- *)

\* saveStatusLabel that looks at the save phase first.
saveStatusLabelPhaseFirst ==
  IF savePhase = "saving" THEN "Saving..."
  ELSE IF ~isOnline THEN "Offline (local only)" ELSE "Saved"

\* The saveStatusLabel memo.
saveStatusLabel ==
  IF ~isOnline THEN "Offline (local only)"
  ELSE IF savePhase = "saving" THEN "Saving..." ELSE "Saved"

\* The window's online / offline event: setIsOnline(value).
Connectivity(value) ==
  /\ Idle
  /\ isOnline' = value
  /\ UNCHANGED <<query, sortOrder, onlyWithContent, setItemThrows>>
  /\ UNCHANGED clientVars
  /\ UNCHANGED sessionVars

Online == Connectivity(TRUE)
Offline == Connectivity(FALSE)

NextConnectivity == NextEditing \/ Online \/ Offline

\* The editing session of SpecEditing in a browser that goes offline and
\* online.
SpecConnectivity == InitEditing /\ [][NextConnectivity]_vars

\* C30 (connectivity touches the status label only): an online or offline
\* event leaves the collection, the selection, the draft, the dirty flag, the
\* save phase, the pending timer and the calls in flight as they are; a client
\* call sends a request exactly when a backend is configured, online or
\* offline; while offline the label is the offline label whatever the save
\* phase.
ConnectivityFrame ==
  /\ [](~isOnline => saveStatusLabel = "Offline (local only)")
  /\ [][/\ (isOnline' # isOnline) =>
             /\ UNCHANGED <<notes, selectedId, draftTitle, draftContent, isDirty,
                            savePhase, timer, timeouts, calls, stored, legacy,
                            backendUrl>>
        /\ \A op \in Ops :
             Called(op) =>
               (calls'[Len(calls')].attempts > 0 <=> isBackendEnabled(backendUrl))]_vars

\* The browser is offline, the draft is dirty and being saved, and the
\* request of the debounced update, sent while offline, is in flight.
ConnectivityFrameWitness ==
  /\ ~isOnline /\ isDirty /\ savePhase = "saving"
  /\ saveStatusLabel = "Offline (local only)"
  /\ \E i \in 1..Len(calls) :
       /\ calls[i].op = "update" /\ calls[i].phase = "remote"
       /\ calls[i].arg.updatedAt > StartTime
  /\ now > StartTime + 1

(* -------- editing, creating and switching (SpecDrafting) --------------- *)

Creates == \E i \in 1..Len(calls) : ContinueCreate(i)

\* The session of SpecEditing with the "New note" button added: the user
\* edits, creates and selects notes.
NextDrafting ==
  \/ NextEditing
  \/ CreateNewNote
  \/ Creates

SpecDrafting == InitEditing /\ [][NextDrafting]_vars

\* C31 (no edit is silently dropped), its safety part: the pending persist of
\* the edits of a note X that is in the collection leaves the timer queue
\* only when updateNote is called for X in the same step (the debounce
\* callback, or the flush of a selection change) or when a later edit of X
\* schedules another in its place; an edit of another note never cancels it.
NoEditDropped ==
  [][\A tm \in timeouts \ timeouts' :
       HasId(notes, tm.id) =>
         \/ Called("update") /\ calls'[Len(calls')].id = tm.id
         \/ \E later \in timeouts' \ timeouts : later.id = tm.id]_vars

\* The ids the backend assigns to the notes created in a session that starts
\* from InitEditing (ServerId(1) is the id of a note of the list payloads).
CreatedIds == {ServerId(n) : n \in 2..(MaxIds + 1)}

\* C32 (edits typed while the create call is in flight), for a create that
\* the backend answers with an id of its own: the debounce callback of the
\* edits was scheduled for the placeholder id, the entry with the
\* placeholder id has become the entry with the persisted id F, which is
\* selected, every timer has fired and every call has settled.  Then the
\* draft and the entry of F carry the typed title and content and updateNote
\* has been called for F with them.
EditsDuringCreateSurvive ==
  \A F \in CreatedIds :
    (/\ calls = <<>> /\ timeouts = {} /\ ~dirty
     /\ IsSome(timer) /\ Get(timer).fired /\ Get(timer).id \in 1..MaxIds
     /\ burst.edits >= 1 /\ burst.id = Get(timer).id
     /\ ~HasId(notes, Get(timer).id)
     /\ selectedId = F /\ HasId(notes, F)) =>
      /\ draftTitle = burst.title /\ draftContent = burst.content
      /\ Get(Find(notes, F)).title \in {burst.title, NormalizeTitle(burst.title)}
      /\ Get(Find(notes, F)).content = burst.content
      /\ burst.sentId = F
      /\ burst.sentTitle = NormalizeTitle(burst.title)
      /\ burst.sentContent = burst.content

(* -------- two debounced persists of one note (SpecRace) --------------- *)

\* The session of SpecEditing started one more unit of time earlier, with a
\* backend configured: four handlers run, enough for an edit, its debounce
\* callback, a second edit and its callback.
InitRace ==
  /\ backendUrl = Some(<<"h">>)
  /\ \E p \in InitStores : ~Seeds(p[1], StartTime - 2) /\ legacy = p[1] /\ stored = p[2]
  /\ now = StartTime - 2
  /\ notes = loadNotesWithSeed(legacy, now, 1)
  /\ selectedId = loadNotesWithSeed(legacy, now, 3)[1].id
  /\ nextId = 1
  /\ calls = <<>>
  /\ issued = 0
  /\ fellBack = [any |-> FALSE, again |-> FALSE]
  /\ draftTitle = Get(SelectedNote(notes, selectedId)).title
  /\ draftContent = Get(SelectedNote(notes, selectedId)).content
  /\ isDirty = FALSE
  /\ savePhase = "saved"
  /\ isConfirmOpen = FALSE
  /\ banner = ""
  /\ bannerTimers = [keep |-> 0, plain |-> 0]
  /\ timer = None
  /\ timeouts = {}
  /\ dirty = TRUE
  /\ depSelNoteId = NotMounted
  /\ burst = NoBurst
  /\ InitShell
  /\ setItemThrows = FALSE

\* The user edits and selects; every call is answered by the client itself
\* (the backend's answer, or the local fallback's).
NextRace ==
  \/ Effects
  \/ EditingContinues
  \/ SessionResponses
  \/ Edits
  \/ TimerFires
  \/ Selects
  \/ LoadBannerTimeout

SpecRace == InitRace /\ [][NextRace]_vars

\* C33 (two update persists of one note in flight): when the debounce
\* callback of an earlier edit of note X resumes after the callback of the
\* latest edit of X has made its call (burst.sent...: the values of the last
\* updateNote call of the burst) and that call has settled, the entry of X
\* holds the title and content of the later edit afterwards.
LaterEditWins ==
  [][\A i \in 1..Len(calls) :
       LET X == calls[i].id
       IN  (/\ Resumed(i, "update")
            /\ burst.persists >= 1 /\ burst.sentId = X
            /\ <<calls[i].arg.title, calls[i].arg.content>>
                 # <<burst.sentTitle, burst.sentContent>>
            /\ \A j \in 1..Len(calls) : j # i => calls[j].id # X
            /\ HasId(notes', X)) =>
             /\ Get(Find(notes', X)).title = burst.sentTitle
             /\ Get(Find(notes', X)).content = burst.sentContent]_vars

(* ------------------ creating while the initial load runs --------------- *)

\* C34 (optimistic mutations during the initial load): when the load effect
\* resumes with the result of listNotes while the createNote call of a note
\* made meanwhile is still awaited, the optimistic entry of that note stays
\* in the collection (the reconciliation of the create replaces an entry, it
\* adds none, so the note is there afterwards only if it is there now).
CreateSurvivesLoad ==
  [][\A i, j \in 1..Len(calls) :
       (/\ Resumed(i, "load")
        /\ calls[j].k.kind = "create"
        /\ HasId(notes, calls[j].k.id)) =>
         HasId(notes', calls[j].k.id)]_vars

(* ------------------------ deleting in local-only mode ------------------ *)

\* C35 (local-only delete): with no backend configured, when
\* confirmDeleteSelected resumes after deleteNote(id), the collection has no
\* entry with that id and the failure banner is not shown.
LocalDeleteSucceeds ==
  [][\A i \in 1..Len(calls) :
       (Resumed(i, "delete") /\ ~isBackendEnabled(backendUrl)) =>
         /\ ~HasId(notes', calls[i].k.id)
         /\ banner' # "Could not delete note."]_vars

(* ------------------- selecting with nothing to flush ------------------- *)

\* C36 (selection without a pending persist): when no debounce timeout is
\* pending (none was scheduled, or the last one has fired), onSelectNote for
\* another note makes no client call and changes the selected id only.
SelectWithoutPendingPersist ==
  [][\A id \in Ids(notes) \ {selectedId} :
       (SelectNote(id) /\ ~TimerPending /\ timeouts = {}) =>
         /\ calls' = calls
         /\ selectedId' = id
         /\ UNCHANGED <<notes, draftTitle, draftContent, isDirty, savePhase,
                        banner, stored, legacy>>]_vars

(* ------------------------- the dirty flag ------------------------------ *)

\* C37 (the dirty flag and the last persist): whenever the effects have run,
\* isDirty is false, no debounce timeout is pending and the draft of the
\* selected note is as the user last typed it (burst: the last edit, made to
\* the selected note), the draft is the note's entry in the collection or
\* what the last updateNote call for the note was given (the title as typed
\* or as normalizeTitle leaves it).
CleanMeansPersisted ==
  (/\ ~dirty /\ ~isDirty /\ ~TimerPending /\ timeouts = {}
   /\ IsSome(SelectedNote(notes, selectedId))
   /\ burst.edits >= 1 /\ burst.id = selectedId
   /\ burst.title = draftTitle /\ burst.content = draftContent) =>
    LET n == Get(SelectedNote(notes, selectedId))
    IN  \/ /\ n.title \in {draftTitle, NormalizeTitle(draftTitle)}
           /\ n.content = draftContent
        \/ /\ burst.persists >= 1 /\ burst.sentId = selectedId
           /\ burst.sentTitle = NormalizeTitle(draftTitle)
           /\ burst.sentContent = draftContent

(* --------------------------- the initial state -------------------------- *)

\* C38 (initial selection): before the effects of the first render have run,
\* the selected id is the id of the first note of the collection.
InitialSelectionIsFirstNote ==
  depSelNoteId = NotMounted =>
    /\ notes # <<>>
    /\ selectedId = notes[1].id

(* -------- editing, switching and deleting (SpecDeleting) --------------- *)

Deletes == \E i \in 1..Len(calls) : ContinueDelete(i)

\* The session of SpecEditing with the delete button and its dialog added.
NextDeleting ==
  \/ NextEditing
  \/ RequestDelete
  \/ CancelDelete
  \/ ConfirmDelete
  \/ Deletes
  \/ BannerTimeout

SpecDeleting == InitEditing /\ [][NextDeleting]_vars

\* C39 (a late update never brings a deleted note back): when the collection
\* has no entry with id X, neither the debounce callback scheduled for X
\* (its optimistic patch and its updateNote call) nor the flush, nor what
\* follows the call when it settles (the reconciliation with the returned
\* note, or the rollback to the snapshot) adds an entry: the collection is
\* left as it is.
LateUpdateAddsNothing ==
  [][/\ \A i \in 1..Len(calls) :
          (/\ calls[i].k.kind \in {"update", "flush"}
           /\ Resumed(i, calls[i].k.kind)
           /\ ~HasId(notes, calls[i].k.id)) =>
            notes' = notes
     /\ (Called("update") /\ ~HasId(notes, calls'[Len(calls')].id)) =>
          notes' = notes]_vars

\* Note 11 was edited and then deleted, and the delete has settled; the
\* updateNote call of the edit's debounce callback (made before or after the
\* delete) failed after that (the failure banner has replaced "Note
\* deleted"): the rollback has run and the collection holds note 12 only.
LateUpdateAddsNothingWitness ==
  /\ calls = <<>> /\ ~dirty
  /\ notes = <<P2>>
  /\ banner = "Autosave failed. Changes were reverted."
  /\ IsSome(timer) /\ Get(timer).fired /\ Get(timer).id = 11

====
